---- MODULE Spec2Model ----
(***************************************************************************)
(* Reference-counted media caches of src/components/media-views.js:        *)
(* TextureCache / inflightTextures used by the media-image component and   *)
(* GLTFCache / inflightGltfs used by loadModel and the gltf-model-plus     *)
(* component.                                                              *)
(*                                                                         *)
(* Three specifications share the variables:                               *)
(*   SpecCache  the two cache classes driven through their public methods  *)
(*              (set / retain / release with any key);                     *)
(*   SpecImage  media-image consumers over textureCache;                   *)
(*   SpecModel  gltf-model-plus consumers over gltfCache.                  *)
(* JavaScript runs one synchronous segment at a time: every action below   *)
(* is one such segment (a handler up to its first await, or the code       *)
(* between two awaits).                                                    *)
(***************************************************************************)
EXTENDS Integers, Sequences, FiniteSets, TLC

\* ------------------------------------------------------------------ bounds
\* Resource keys are 1..NumKeys (distinct URLs).
NumKeys == 2
\* Distinct resource objects (textures / parsed glTFs) the loaders may create.
MaxRes == 3
\* Direct method calls made by the SpecCache driver.
MaxCalls == 5
\* gltf-model-plus components (1..NumModels) and the update() calls they get.
NumModels == 2
MaxUpdates == 3
\* media-image components (1..NumImages).
NumImages == 2

Keys == 1..NumKeys
Res == 1..MaxRes
ModelIds == 1..NumModels
ImageIds == 1..NumImages

\* A src attribute is a key, or the empty string (the schema's default).
EmptySrc == 0
\* this.lastSrc before the first applySrc: undefined.
UndefinedSrc == -1
SrcValues == Keys \cup {EmptySrc}

\* JavaScript's undefined (Map.get of an absent key, an unset field).
Undefined == [undef |-> TRUE]

VARIABLES
  textureCache,      \* TextureCache.cache: key -> {texture, count} or Undefined
  gltfCache,         \* GLTFCache.cache: key -> {gltf, count} or Undefined
  texDisposed,       \* texture -> number of disposeTexture calls on it
  gltfDisposed,      \* gltf -> number of scene.traverse(disposeNode) calls on it
  nextRes,           \* next fresh resource object
  calls,             \* SpecCache: number of method calls made so far
  lastCall,          \* SpecCache: the last method call and what it found
  tally,             \* SpecCache: per cache and key, #sets, #retains, #releases
                     \*            applied to the entry now in the table
  inflightGltfs,     \* inflightGltfs: key -> the promise stored for it, or Undefined
  gltfWaiting,       \* key -> continuations awaiting that promise, oldest first
  mdl,               \* gltf-model-plus components
  macroWaiting,      \* continuations awaiting an uncached loadGLTF or nextTick()
  jobs,              \* promise reaction jobs ready to run, oldest first
  updates,           \* number of update() calls made so far
  held,              \* component, key -> table retains taken minus given back
  superseded,        \* component -> keys it requested and left before they loaded
  reissued,          \* component -> keys it requested again while its own load of them was pending
  lastRun,           \* the continuation that ran last and how it ended
  inflightTextures,  \* inflightTextures: key -> the promise stored for it, or Undefined
  texWaiting,        \* key -> continuations awaiting that promise, oldest first
  img,               \* media-image components
  imgHeld,           \* component, key -> table retains taken minus given back
  vid,               \* the media-video component
  vidPending,        \* its updateSrc() calls awaiting createVideoTexture, oldest first
  vidTextures,       \* video textures created so far: their src and dispose() calls
  vidUpdates,        \* number of media-video update() calls made so far
  vidEscaped,        \* updateSrc() / remove() calls that ended in an uncaught error
  errDisposed,       \* dispose() calls on errorTexture
  cachedGltf,        \* the parsed asset held by gltfCache: its scene nodes
  templates,         \* this.templates: the declared template names
  loads,             \* per consumer: its loadModel result and what applySrc made of it
  nextObj,           \* object identities handed out so far
  parserJson,        \* loadGLTF: parser.json, the asset's JSON document
  originalJson,      \* the document as it was fetched
  migrations,        \* number of runMigration applications to parserJson
  parserPc,          \* loadGLTF: how far it has got with the document
  pdfc,              \* the media-pdf component
  pdfCalls,          \* its update() calls, in the order they were made
  pdfJobs,           \* update() continuations ready to run, oldest first
  renderTasks,       \* page.render() tasks started so far and their state
  gif,               \* a GIFTexture: its frames, delays, disposals, frame, frameStartTime
  now,               \* Date.now()
  materialPass,      \* loadGLTF's pass over parser.json.materials: the list, as parsed and now
  canvas,            \* the GIFTexture's canvas (this.image): its size and the last clearRect on it
  gifLoads,          \* createGIFTexture calls: the step each waits for, its promise, its frame images
  vtex               \* one createVideoTexture call: its video element, promise and timer

cacheVars == <<textureCache, gltfCache, texDisposed, gltfDisposed, nextRes>>
driverVars == <<calls, lastCall, tally>>
modelVars == <<inflightGltfs, gltfWaiting, mdl, macroWaiting, jobs, updates,
               held, superseded, reissued, lastRun>>
imageVars == <<inflightTextures, texWaiting, img, imgHeld>>
videoVars == <<vid, vidPending, vidTextures, vidUpdates, vidEscaped, errDisposed>>
inflateVars == <<cachedGltf, templates, loads, nextObj>>
migrationVars == <<parserJson, originalJson, migrations, parserPc, materialPass>>
pdfVars == <<pdfc, pdfCalls, pdfJobs, renderTasks>>
gifVars == <<gif, now, gifLoads, canvas>>
restVars == <<migrationVars, pdfVars, gifVars, vtex>>
vars == <<textureCache, gltfCache, texDisposed, gltfDisposed, nextRes,
          calls, lastCall, tally,
          inflightGltfs, gltfWaiting, mdl, macroWaiting, jobs, updates,
          held, superseded, reissued, lastRun,
          inflightTextures, texWaiting, img, imgHeld,
          vid, vidPending, vidTextures, vidUpdates, vidEscaped, errDisposed,
          cachedGltf, templates, loads, nextObj, restVars>>

\* ------------------------------------------------------- the cache classes
\* A method's outcome: the table after the call, the resources it disposed,
\* whether it threw, whether it logged through console.error.
Outcome(cache, disposed, threw, reported) ==
  [cache |-> cache, disposed |-> disposed, threw |-> threw, reported |-> reported]

TextureCache_has(cache, src) == cache[src] # Undefined

TextureCache_get(cache, src) == cache[src]

\* Mutant: retain hands out the entry without counting the new owner.
TextureCache_retain_KeepsCount(cache, src) ==
  IF cache[src] = Undefined
    THEN Outcome(cache, {}, TRUE, FALSE)
    ELSE Outcome(cache, {}, FALSE, FALSE)

\* cacheItem.count++ on an absent key dereferences undefined: a TypeError.
TextureCache_retain(cache, src) ==
  IF cache[src] = Undefined
    THEN Outcome(cache, {}, TRUE, FALSE)
    ELSE Outcome([cache EXCEPT ![src].count = @ + 1], {}, FALSE, FALSE)

\* The entry is stored with count 0 and retained in the same call.
TextureCache_set(cache, src, texture) ==
  TextureCache_retain([cache EXCEPT ![src] = [res |-> texture, count |-> 0]], src)

\* Mutant: the entry is deleted only once the count is below zero.
TextureCache_release_DeletesBelowZero(cache, src) ==
  IF cache[src] = Undefined
    THEN Outcome(cache, {}, FALSE, TRUE)
    ELSE IF cache[src].count - 1 < 0
      THEN Outcome([cache EXCEPT ![src] = Undefined], {cache[src].res}, FALSE, FALSE)
      ELSE Outcome([cache EXCEPT ![src].count = @ - 1], {}, FALSE, FALSE)

\* Mutant: a release of an absent key dereferences undefined, as retain does.
TextureCache_release_ThrowsOnAbsent(cache, src) ==
  IF cache[src] = Undefined
    THEN Outcome(cache, {}, TRUE, FALSE)
    ELSE IF cache[src].count - 1 <= 0
      THEN Outcome([cache EXCEPT ![src] = Undefined], {cache[src].res}, FALSE, FALSE)
      ELSE Outcome([cache EXCEPT ![src].count = @ - 1], {}, FALSE, FALSE)

TextureCache_release(cache, src) ==
  IF cache[src] = Undefined
    THEN Outcome(cache, {}, FALSE, TRUE)
    ELSE IF cache[src].count - 1 <= 0
      THEN Outcome([cache EXCEPT ![src] = Undefined], {cache[src].res}, FALSE, FALSE)
      ELSE Outcome([cache EXCEPT ![src].count = @ - 1], {}, FALSE, FALSE)

GLTFCache_has(cache, src) == cache[src] # Undefined

GLTFCache_get(cache, src) == cache[src]

\* Mutant: retaining an absent key creates an entry for it.
GLTFCache_retain_CreatesEntry(cache, src) ==
  IF cache[src] = Undefined
    THEN Outcome([cache EXCEPT ![src] = [res |-> 1, count |-> 1]], {}, FALSE, FALSE)
    ELSE Outcome([cache EXCEPT ![src].count = @ + 1], {}, FALSE, FALSE)

GLTFCache_retain(cache, src) ==
  IF cache[src] = Undefined
    THEN Outcome(cache, {}, TRUE, FALSE)
    ELSE Outcome([cache EXCEPT ![src].count = @ + 1], {}, FALSE, FALSE)

\* Mutant: the entry is stored with count 1 and then retained.
GLTFCache_set_StartsAtOne(cache, src, gltf) ==
  GLTFCache_retain([cache EXCEPT ![src] = [res |-> gltf, count |-> 1]], src)

GLTFCache_set(cache, src, gltf) ==
  GLTFCache_retain([cache EXCEPT ![src] = [res |-> gltf, count |-> 0]], src)

\* Mutant: every release disposes the glTF, whatever the count.
GLTFCache_release_AlwaysDisposes(cache, src) ==
  IF cache[src] = Undefined
    THEN Outcome(cache, {}, FALSE, TRUE)
    ELSE IF cache[src].count - 1 <= 0
      THEN Outcome([cache EXCEPT ![src] = Undefined], {cache[src].res}, FALSE, FALSE)
      ELSE Outcome([cache EXCEPT ![src].count = @ - 1], {cache[src].res}, FALSE, FALSE)

GLTFCache_release(cache, src) ==
  IF cache[src] = Undefined
    THEN Outcome(cache, {}, FALSE, TRUE)
    ELSE IF cache[src].count - 1 <= 0
      THEN Outcome([cache EXCEPT ![src] = Undefined], {cache[src].res}, FALSE, FALSE)
      ELSE Outcome([cache EXCEPT ![src].count = @ - 1], {}, FALSE, FALSE)

\* disposeTexture(texture) / gltf.scene.traverse(disposeNode): one more
\* disposal of every resource in rs.
Disposing(log, rs) == [r \in Res |-> IF r \in rs THEN log[r] + 1 ELSE log[r]]

EmptyCache == [k \in Keys |-> Undefined]
NoCall == [kind |-> "none", op |-> "none", src |-> 0, before |-> Undefined,
           threw |-> FALSE, reported |-> FALSE, disposed |-> {}]
NoTally == [c \in {"texture", "gltf"} |->
             [k \in Keys |-> [sets |-> 0, retains |-> 0, releases |-> 0]]]

CacheInit ==
  /\ textureCache = EmptyCache
  /\ gltfCache = EmptyCache
  /\ texDisposed = [r \in Res |-> 0]
  /\ gltfDisposed = [r \in Res |-> 0]
  /\ nextRes = 1

DriverInit ==
  /\ calls = 0
  /\ lastCall = NoCall
  /\ tally = NoTally

\* ------------------------------------------- loadModel and gltf-model-plus
\* No inflated element / no object3D set: the field is unset.
NoObject == [src |-> EmptySrc, res |-> 0]

\* A component before its entity exists. useCache defaults to true, inflate to
\* false; lastSrc is undefined until applySrc runs.
NoComponent ==
  [state |-> "none", src |-> EmptySrc, useCache |-> TRUE, inflate |-> FALSE,
   lastSrc |-> UndefinedSrc, inflatedEl |-> NoObject, mesh |-> NoObject]

NoRun == [c |-> 0, src |-> EmptySrc, stage |-> "none", ok |-> TRUE, res |-> 0,
          outcome |-> "none"]

\* A suspended async call: applySrc(src) of component c, with the lastSrc it
\* captured, waiting at `stage`; ok / res are the awaited promise's outcome.
\* left is history: this.lastSrc was changed while the call waited at nextTick().
Job(c, src, lastSrc, stage, ok, res) ==
  [c |-> c, src |-> src, lastSrc |-> lastSrc, stage |-> stage, ok |-> ok, res |-> res,
   left |-> FALSE]

\* this.lastSrc of component c changes: its calls waiting at nextTick() are left behind.
Left(c, waiting) ==
  [i \in 1..Len(waiting) |->
     IF waiting[i].c = c /\ waiting[i].stage = "nextTick"
       THEN [waiting[i] EXCEPT !.left = TRUE]
       ELSE waiting[i]]

Ran(j, outcome) ==
  [c |-> j.c, src |-> j.src, stage |-> j.stage, ok |-> j.ok, res |-> j.res,
   outcome |-> outcome]

ModelInit ==
  /\ inflightGltfs = [k \in Keys |-> Undefined]
  /\ gltfWaiting = [k \in Keys |-> <<>>]
  /\ mdl = [c \in ModelIds |-> NoComponent]
  /\ macroWaiting = <<>>
  /\ jobs = <<>>
  /\ updates = 0
  /\ held = [c \in ModelIds |-> [k \in Keys |-> 0]]
  /\ superseded = [c \in ModelIds |-> {}]
  /\ reissued = [c \in ModelIds |-> {}]
  /\ lastRun = NoRun

\* gltfCache.release(src) as component c calls it; held counts the releases
\* that found an entry.
ReleaseBy(c, src) ==
  LET out == GLTFCache_release(gltfCache, src) IN
    /\ gltfCache' = out.cache
    /\ gltfDisposed' = Disposing(gltfDisposed, out.disposed)
    /\ held' = IF GLTFCache_has(gltfCache, src)
                 THEN [held EXCEPT ![c][src] = @ - 1] ELSE held

\* disposeLastInflatedEl: the inflated element is detached and forgotten.
disposeLastInflatedEl(m) == [m EXCEPT !.inflatedEl = NoObject]

\* applySrc up to its first await, loadModel's synchronous part included.
\* m is the component with its new data.
applySrc(c, m, src) ==
  /\ src # m.lastSrc
  /\ LET m1 == [m EXCEPT !.lastSrc = src]
         at(stage, ok, res) == Job(c, src, m.lastSrc, stage, ok, res)
         waiting == Left(c, macroWaiting)
     IN
     IF src = EmptySrc THEN
       /\ mdl' = [mdl EXCEPT ![c] = disposeLastInflatedEl(m1)]
       /\ macroWaiting' = waiting
       /\ UNCHANGED <<gltfCache, gltfDisposed, held, inflightGltfs, gltfWaiting, jobs>>
     ELSE IF ~m.useCache THEN
       /\ mdl' = [mdl EXCEPT ![c] = m1]
       /\ macroWaiting' = Append(waiting, at("loadGLTF", TRUE, 0))
       /\ UNCHANGED <<gltfCache, gltfDisposed, held, inflightGltfs, gltfWaiting, jobs>>
     ELSE IF GLTFCache_has(gltfCache, src) THEN
       /\ mdl' = [mdl EXCEPT ![c] = m1]
       /\ gltfCache' = GLTFCache_retain(gltfCache, src).cache
       /\ held' = [held EXCEPT ![c][src] = @ + 1]
       /\ jobs' = Append(jobs, at("applySrc", TRUE, GLTFCache_get(gltfCache, src).res))
       /\ macroWaiting' = waiting
       /\ UNCHANGED <<gltfDisposed, inflightGltfs, gltfWaiting>>
     ELSE IF inflightGltfs[src] # Undefined THEN
       /\ mdl' = [mdl EXCEPT ![c] = m1]
       /\ IF inflightGltfs[src].state = "pending"
            THEN /\ gltfWaiting' = [gltfWaiting EXCEPT ![src] =
                                      Append(@, at("waiter", TRUE, 0))]
                 /\ UNCHANGED jobs
            ELSE /\ jobs' = Append(jobs, at("waiter",
                                            inflightGltfs[src].state = "fulfilled",
                                            inflightGltfs[src].res))
                 /\ UNCHANGED gltfWaiting
       /\ macroWaiting' = waiting
       /\ UNCHANGED <<gltfCache, gltfDisposed, held, inflightGltfs>>
     ELSE
       /\ mdl' = [mdl EXCEPT ![c] = m1]
       /\ inflightGltfs' = [inflightGltfs EXCEPT ![src] = [state |-> "pending", res |-> 0]]
       /\ gltfWaiting' = [gltfWaiting EXCEPT ![src] = Append(@, at("loader", TRUE, 0))]
       /\ macroWaiting' = waiting
       /\ UNCHANGED <<gltfCache, gltfDisposed, held, jobs>>

\* Handlers run from a task: no promise reaction job is waiting.
Idle == jobs = <<>>

\* The entity is created with the component on it: init(), then update().
\* Components are numbered in the order they are created.
ModelCreate(c, src, useCache, inflate) ==
  /\ UNCHANGED <<imageVars, videoVars, inflateVars, restVars>>
  /\ Idle /\ updates < MaxUpdates
  /\ mdl[c].state = "none"
  /\ \A b \in ModelIds : b < c => mdl[b].state # "none"
  /\ applySrc(c, [mdl[c] EXCEPT !.state = "live", !.src = src,
                                !.useCache = useCache, !.inflate = inflate], src)
  /\ updates' = updates + 1
  /\ lastRun' = NoRun
  /\ UNCHANGED <<textureCache, texDisposed, nextRes, driverVars, superseded, reissued>>

\* Component c has called loadModel(src) and the load has not settled.
LoadPending(c, src) ==
  /\ src \in Keys
  /\ \/ \E i \in 1..Len(gltfWaiting[src]) : gltfWaiting[src][i].c = c
     \/ \E i \in 1..Len(macroWaiting) :
          /\ macroWaiting[i].stage = "loadGLTF"
          /\ macroWaiting[i].c = c /\ macroWaiting[i].src = src

\* setAttribute("gltf-model-plus", "src", src): update().
ModelSetSrc(c, src) ==
  /\ UNCHANGED <<imageVars, videoVars, inflateVars, restVars>>
  /\ Idle /\ updates < MaxUpdates
  /\ mdl[c].state = "live"
  /\ applySrc(c, [mdl[c] EXCEPT !.src = src], src)
  /\ superseded' = IF LoadPending(c, mdl[c].src)
                      THEN [superseded EXCEPT ![c] = @ \cup {mdl[c].src}]
                      ELSE superseded
  /\ reissued' = IF src # mdl[c].lastSrc /\ LoadPending(c, src)
                    THEN [reissued EXCEPT ![c] = @ \cup {src}]
                    ELSE reissued
  /\ updates' = updates + 1
  /\ lastRun' = NoRun
  /\ UNCHANGED <<textureCache, texDisposed, nextRes, driverVars>>

\* The entity is removed: remove().
ModelRemove(c) ==
  /\ UNCHANGED <<imageVars, videoVars, inflateVars, restVars>>
  /\ Idle
  /\ mdl[c].state = "live"
  /\ mdl' = [mdl EXCEPT ![c].state = "removed"]
  /\ IF mdl[c].src \in Keys
       THEN ReleaseBy(c, mdl[c].src)
       ELSE UNCHANGED <<gltfCache, gltfDisposed, held>>
  /\ lastRun' = NoRun
  /\ UNCHANGED <<textureCache, texDisposed, nextRes, driverVars, inflightGltfs,
                 gltfWaiting, macroWaiting, jobs, updates, superseded, reissued>>

Settled(waiting, ok, res) ==
  [i \in 1..Len(waiting) |-> [waiting[i] EXCEPT !.ok = ok, !.res = res]]

\* The loadGLTF promise stored in inflightGltfs for src settles: every
\* continuation awaiting it becomes ready, in the order they began to wait.
LoadGLTFSettles(src, ok) ==
  /\ UNCHANGED <<imageVars, videoVars, inflateVars, restVars>>
  /\ Idle
  /\ inflightGltfs[src] # Undefined /\ inflightGltfs[src].state = "pending"
  /\ ok => nextRes <= MaxRes
  /\ LET res == IF ok THEN nextRes ELSE 0 IN
       /\ inflightGltfs' = [inflightGltfs EXCEPT ![src] =
            [state |-> IF ok THEN "fulfilled" ELSE "rejected", res |-> res]]
       /\ jobs' = jobs \o Settled(gltfWaiting[src], ok, res)
  /\ gltfWaiting' = [gltfWaiting EXCEPT ![src] = <<>>]
  /\ nextRes' = IF ok THEN nextRes + 1 ELSE nextRes
  /\ lastRun' = NoRun
  /\ UNCHANGED <<textureCache, gltfCache, texDisposed, gltfDisposed, driverVars,
                 mdl, macroWaiting, updates, held, superseded, reissued>>

Without(seq, i) == SubSeq(seq, 1, i - 1) \o SubSeq(seq, i + 1, Len(seq))

\* A loadGLTF started for a component with useCache = false settles.
UncachedLoadSettles(i, ok) ==
  /\ UNCHANGED <<imageVars, videoVars, inflateVars, restVars>>
  /\ Idle
  /\ i \in 1..Len(macroWaiting) /\ macroWaiting[i].stage = "loadGLTF"
  /\ ok => nextRes <= MaxRes
  /\ jobs' = Append(jobs, [macroWaiting[i] EXCEPT !.stage = "applySrc", !.ok = ok,
                             !.res = IF ok THEN nextRes ELSE 0])
  /\ macroWaiting' = Without(macroWaiting, i)
  /\ nextRes' = IF ok THEN nextRes + 1 ELSE nextRes
  /\ lastRun' = NoRun
  /\ UNCHANGED <<textureCache, gltfCache, texDisposed, gltfDisposed, driverVars,
                 inflightGltfs, gltfWaiting, mdl, updates, held, superseded, reissued>>

\* nextTick() resolves for an applySrc waiting at line 1458. ok: whether
\* inflateComponents and attachTemplate will run without throwing.
NextTickFires(i, ok) ==
  /\ UNCHANGED <<imageVars, videoVars, inflateVars, restVars>>
  /\ Idle
  /\ i \in 1..Len(macroWaiting) /\ macroWaiting[i].stage = "nextTick"
  /\ jobs' = Append(jobs, [macroWaiting[i] EXCEPT !.ok = ok])
  /\ macroWaiting' = Without(macroWaiting, i)
  /\ lastRun' = NoRun
  /\ UNCHANGED <<cacheVars, driverVars, inflightGltfs, gltfWaiting, mdl, updates, held,
                 superseded, reissued>>

\* applySrc's catch block: gltfCache.release(src), then model-error.
applySrc_catch(j) ==
  /\ ReleaseBy(j.c, j.src)
  /\ lastRun' = Ran(j, "model-error")
  /\ UNCHANGED mdl

\* applySrc from line 1468 on: release(lastSrc), setObject3D, model-loaded.
applySrc_finish(j) ==
  /\ IF j.lastSrc \in Keys
       THEN ReleaseBy(j.c, j.lastSrc)
       ELSE UNCHANGED <<gltfCache, gltfDisposed, held>>
  /\ mdl' = [mdl EXCEPT ![j.c].mesh = [src |-> j.src, res |-> j.res]]
  /\ lastRun' = Ran(j, "model-loaded")

\* The oldest ready continuation runs up to its next await or its return.
RunJob ==
  /\ UNCHANGED <<imageVars, videoVars, inflateVars, restVars>>
  /\ jobs # <<>>
  /\ LET j == Head(jobs)
         rest == Tail(jobs)
         resume(ok) == [j EXCEPT !.stage = "applySrc", !.ok = ok]
     IN
     CASE j.stage = "loader" ->
          \* loadModel, lines 1337-1340
          IF j.ok THEN
            /\ inflightGltfs' = [inflightGltfs EXCEPT ![j.src] = Undefined]
            /\ gltfCache' = GLTFCache_set(gltfCache, j.src, j.res).cache
            /\ held' = [held EXCEPT ![j.c][j.src] = @ + 1]
            /\ jobs' = Append(rest, resume(TRUE))
            /\ lastRun' = Ran(j, "set")
            /\ UNCHANGED <<gltfDisposed, mdl, macroWaiting>>
          ELSE
            /\ jobs' = Append(rest, resume(FALSE))
            /\ lastRun' = Ran(j, "threw")
            /\ UNCHANGED <<gltfCache, gltfDisposed, held, inflightGltfs, mdl, macroWaiting>>
       [] j.stage = "waiter" ->
          \* loadModel, lines 1331-1333
          LET out == GLTFCache_retain(gltfCache, j.src) IN
          IF j.ok /\ ~out.threw THEN
            /\ gltfCache' = out.cache
            /\ held' = [held EXCEPT ![j.c][j.src] = @ + 1]
            /\ jobs' = Append(rest, resume(TRUE))
            /\ lastRun' = Ran(j, "retained")
            /\ UNCHANGED <<gltfDisposed, inflightGltfs, mdl, macroWaiting>>
          ELSE
            /\ jobs' = Append(rest, resume(FALSE))
            /\ lastRun' = Ran(j, "threw")
            /\ UNCHANGED <<gltfCache, gltfDisposed, held, inflightGltfs, mdl, macroWaiting>>
       [] j.stage = "applySrc" ->
          \* applySrc, lines 1418-1458
          /\ jobs' = rest
          /\ UNCHANGED inflightGltfs
          /\ IF ~j.ok THEN
               /\ applySrc_catch(j)
               /\ UNCHANGED macroWaiting
             ELSE IF j.src # mdl[j.c].lastSrc THEN
               /\ lastRun' = Ran(j, "stale")
               /\ UNCHANGED <<gltfCache, gltfDisposed, held, mdl, macroWaiting>>
             ELSE IF mdl[j.c].inflate THEN
               /\ mdl' = [mdl EXCEPT ![j.c].inflatedEl = [src |-> j.src, res |-> j.res]]
               /\ macroWaiting' = Append(macroWaiting, [j EXCEPT !.stage = "nextTick"])
               /\ lastRun' = Ran(j, "inflated")
               /\ UNCHANGED <<gltfCache, gltfDisposed, held>>
             ELSE
               /\ applySrc_finish(j)
               /\ UNCHANGED macroWaiting
       [] j.stage = "nextTick" ->
          \* applySrc, lines 1459-1465
          /\ jobs' = rest
          /\ UNCHANGED <<inflightGltfs, macroWaiting>>
          \* inflateComponents(this.inflatedEl, ...) throws a TypeError when
          \* disposeLastInflatedEl has deleted this.inflatedEl meanwhile.
          /\ IF j.src # mdl[j.c].lastSrc THEN
               /\ lastRun' = Ran(j, "stale")
               /\ UNCHANGED <<gltfCache, gltfDisposed, held, mdl>>
             ELSE IF ~j.ok \/ mdl[j.c].inflatedEl = NoObject THEN applySrc_catch(j)
             ELSE applySrc_finish(j)
  /\ UNCHANGED <<textureCache, texDisposed, nextRes, driverVars, gltfWaiting, updates,
                 superseded, reissued>>


\* --------------------------------------------------------------- media-image
\* The src "error", which selects errorCacheItem.
ErrorSrc == -2
\* errorTexture, the shared placeholder; material.map = null.
ErrorTexture == -1
NoTexture == 0
ContentTypes == {"image/gif", "image/png", "video/mp4"}
ImageSrcValues == Keys \cup {ErrorSrc}

\* A component before its entity exists: no mesh, currentSrcIsRetained unset.
NoImage ==
  [state |-> "none", src |-> EmptySrc, mesh |-> FALSE, map |-> NoTexture,
   currentSrcIsRetained |-> FALSE]

ImageInit ==
  /\ inflightTextures = [k \in Keys |-> Undefined]
  /\ texWaiting = [k \in Keys |-> <<>>]
  /\ img = [c \in ImageIds |-> NoImage]
  /\ imgHeld = [c \in ImageIds |-> [k \in Keys |-> 0]]

\* this.mesh.map. The mesh is a THREE.Mesh; the component assigns only
\* mesh.material.map, never mesh.map, so the read yields undefined (falsy).
mesh_map(m) == NoTexture

\* textureCache.has / release with a src that may be "error": that key is
\* never set, so the Map has no entry for it.
ImageCacheHas(cache, src) == src \in Keys /\ TextureCache_has(cache, src)

ImageCacheRelease(cache, src) ==
  IF src \in Keys THEN TextureCache_release(cache, src)
                  ELSE Outcome(cache, {}, FALSE, TRUE)

\* The tail of update() from line 831: the mesh exists afterwards and shows
\* texture; image-loaded is emitted.
ImageShow(m, texture, retained) ==
  [m EXCEPT !.mesh = TRUE, !.map = texture, !.currentSrcIsRetained = retained]

ImageJob(c, src, stage, ok, res) ==
  [c |-> c, src |-> src, stage |-> stage, ok |-> ok, res |-> res]

\* update(oldData) up to its first await. m is the component with its new
\* data, oldSrc is oldData.src.
media_image_update(c, m, oldSrc, src, contentType) ==
  LET dropOld == m.mesh /\ mesh_map(m) # NoTexture /\ src # oldSrc
      releaseOld == dropOld /\ mesh_map(m) # ErrorTexture
      outA == IF releaseOld THEN ImageCacheRelease(textureCache, oldSrc)
                            ELSE Outcome(textureCache, {}, FALSE, FALSE)
      heldA == IF releaseOld /\ ImageCacheHas(textureCache, oldSrc)
                 THEN [imgHeld EXCEPT ![c][oldSrc] = @ - 1] ELSE imgHeld
      m1 == IF dropOld
              THEN [m EXCEPT !.map = NoTexture,
                             !.currentSrcIsRetained = IF releaseOld THEN FALSE ELSE @]
              ELSE m
      cacheA == outA.cache
  IN
  /\ texDisposed' = Disposing(texDisposed, outA.disposed)
  /\ IF ImageCacheHas(cacheA, src) THEN
       \* lines 787-792
       /\ textureCache' = IF m1.currentSrcIsRetained
                            THEN cacheA ELSE TextureCache_retain(cacheA, src).cache
       /\ imgHeld' = IF m1.currentSrcIsRetained
                       THEN heldA ELSE [heldA EXCEPT ![c][src] = @ + 1]
       /\ img' = [img EXCEPT ![c] = ImageShow(m1, TextureCache_get(cacheA, src).res, TRUE)]
       /\ UNCHANGED <<inflightTextures, texWaiting, jobs>>
     ELSE IF src = ErrorSrc THEN
       \* lines 794-795, 815, 821-824
       /\ img' = [img EXCEPT ![c] = ImageShow(m1, ErrorTexture, TRUE)]
       /\ textureCache' = cacheA
       /\ imgHeld' = heldA
       /\ UNCHANGED <<inflightTextures, texWaiting, jobs>>
     ELSE IF inflightTextures[src] # Undefined THEN
       \* lines 796-797
       /\ img' = [img EXCEPT ![c] = m1]
       /\ textureCache' = cacheA
       /\ imgHeld' = heldA
       /\ IF inflightTextures[src].state = "pending"
            THEN /\ texWaiting' = [texWaiting EXCEPT ![src] =
                                     Append(@, ImageJob(c, src, "imageWaiter", TRUE, 0))]
                 /\ UNCHANGED jobs
            ELSE /\ jobs' = Append(jobs, ImageJob(c, src, "imageWaiter",
                                                  inflightTextures[src].state = "fulfilled",
                                                  inflightTextures[src].res))
                 /\ UNCHANGED texWaiting
       /\ UNCHANGED inflightTextures
     ELSE IF contentType \notin {"image/gif", "image/png"} THEN
       \* line 806, caught at line 825
       /\ img' = [img EXCEPT ![c] = ImageShow(m1, ErrorTexture, FALSE)]
       /\ textureCache' = cacheA
       /\ imgHeld' = heldA
       /\ UNCHANGED <<inflightTextures, texWaiting, jobs>>
     ELSE
       \* lines 800-809: createGIFTexture / createImageTexture
       /\ img' = [img EXCEPT ![c] = m1]
       /\ textureCache' = cacheA
       /\ imgHeld' = heldA
       /\ inflightTextures' = [inflightTextures EXCEPT ![src] =
                                 [state |-> "pending", res |-> 0]]
       /\ texWaiting' = [texWaiting EXCEPT ![src] =
                           Append(@, ImageJob(c, src, "imageLoader", TRUE, 0))]
       /\ UNCHANGED jobs

imageFrame == <<videoVars, inflateVars, restVars, gltfCache, gltfDisposed, driverVars, inflightGltfs, gltfWaiting,
                mdl, macroWaiting, held, superseded, reissued>>

\* The entity is created with the component on it: update({}).
\* Components are numbered in the order they are created.
ImageCreate(c, src, contentType) ==
  /\ Idle /\ updates < MaxUpdates
  /\ img[c].state = "none"
  /\ \A b \in ImageIds : b < c => img[b].state # "none"
  /\ media_image_update(c, [img[c] EXCEPT !.state = "live", !.src = src],
                        EmptySrc, src, contentType)
  /\ updates' = updates + 1
  /\ lastRun' = NoRun
  /\ UNCHANGED <<nextRes, imageFrame>>

\* setAttribute("media-image", ...): update(oldData), src changed or not.
ImageSetSrc(c, src, contentType) ==
  /\ Idle /\ updates < MaxUpdates
  /\ img[c].state = "live"
  /\ media_image_update(c, [img[c] EXCEPT !.src = src], img[c].src, src, contentType)
  /\ updates' = updates + 1
  /\ lastRun' = NoRun
  /\ UNCHANGED <<nextRes, imageFrame>>

\* The entity is removed: el.parentNode becomes null and remove() runs.
ImageRemove(c) ==
  /\ Idle
  /\ img[c].state = "live"
  /\ LET out == IF img[c].currentSrcIsRetained
                  THEN ImageCacheRelease(textureCache, img[c].src)
                  ELSE Outcome(textureCache, {}, FALSE, FALSE)
     IN /\ textureCache' = out.cache
        /\ texDisposed' = Disposing(texDisposed, out.disposed)
        /\ imgHeld' = IF img[c].currentSrcIsRetained
                         /\ ImageCacheHas(textureCache, img[c].src)
                        THEN [imgHeld EXCEPT ![c][img[c].src] = @ - 1] ELSE imgHeld
  /\ img' = [img EXCEPT ![c].state = "removed", ![c].currentSrcIsRetained = FALSE]
  /\ lastRun' = NoRun
  /\ UNCHANGED <<nextRes, imageFrame, inflightTextures, texWaiting, jobs, updates>>

\* The promise stored in inflightTextures for src settles: every continuation
\* awaiting it becomes ready, in the order they began to wait.
TextureSettles(src, ok) ==
  /\ Idle
  /\ inflightTextures[src] # Undefined /\ inflightTextures[src].state = "pending"
  /\ ok => nextRes <= MaxRes
  /\ LET res == IF ok THEN nextRes ELSE 0 IN
       /\ inflightTextures' = [inflightTextures EXCEPT ![src] =
            [state |-> IF ok THEN "fulfilled" ELSE "rejected", res |-> res]]
       /\ jobs' = jobs \o Settled(texWaiting[src], ok, res)
  /\ texWaiting' = [texWaiting EXCEPT ![src] = <<>>]
  /\ nextRes' = IF ok THEN nextRes + 1 ELSE nextRes
  /\ lastRun' = NoRun
  /\ UNCHANGED <<textureCache, texDisposed, imageFrame, img, imgHeld, updates>>

\* inflightTextures.delete(src), line 810.
inflightTextures_delete_KeepsEntry(registry, src) == registry

inflightTextures_delete(registry, src) == [registry EXCEPT ![src] = Undefined]

\* The oldest ready continuation of update() runs to its end.
ImageRunJob ==
  /\ jobs # <<>>
  /\ LET j == Head(jobs)
         c == j.c
         \* lines 809-811 (the call that started the load) or 797-798 (a waiter)
         outA == IF j.stage = "imageLoader"
                   THEN TextureCache_set(textureCache, j.src, j.res)
                   ELSE TextureCache_retain(textureCache, j.src)
         threw == ~j.ok \/ outA.threw
         \* line 815
         stale == img[c].src # j.src \/ img[c].state = "removed"
         outB == IF stale THEN TextureCache_release(outA.cache, j.src)
                          ELSE Outcome(outA.cache, {}, FALSE, FALSE)
     IN
     /\ jobs' = Tail(jobs)
     /\ IF threw THEN
          \* the catch block, lines 825-829, then the tail of update()
          /\ img' = [img EXCEPT ![c] = ImageShow(@, ErrorTexture, FALSE)]
          /\ lastRun' = Ran(j, "error")
          /\ UNCHANGED <<textureCache, texDisposed, imgHeld, inflightTextures>>
        ELSE
          /\ inflightTextures' = IF j.stage = "imageLoader"
                                   THEN inflightTextures_delete(inflightTextures, j.src)
                                   ELSE inflightTextures
          /\ textureCache' = outB.cache
          /\ texDisposed' = Disposing(texDisposed, outB.disposed)
          /\ IF stale
               THEN /\ lastRun' = Ran(j, "discarded")
                    /\ UNCHANGED <<img, imgHeld>>
               ELSE /\ img' = [img EXCEPT ![c] =
                                 ImageShow(@, TextureCache_get(outA.cache, j.src).res, TRUE)]
                    /\ imgHeld' = [imgHeld EXCEPT ![c][j.src] = @ + 1]
                    /\ lastRun' = Ran(j, "image-loaded")
  /\ UNCHANGED <<nextRes, imageFrame, texWaiting, updates>>


\* --------------------------------------------------------------- media-video
MaxVideoUpdates == 4
MaxVideoTextures == 3
VideoTextureIds == 1..MaxVideoTextures

\* The component before its entity exists: no mesh, this.video unset.
NoVideo ==
  [state |-> "none", src |-> EmptySrc, mesh |-> FALSE, map |-> NoTexture,
   video |-> FALSE]

VideoInit ==
  /\ vid = NoVideo
  /\ vidPending = <<>>
  /\ vidTextures = <<>>
  /\ vidUpdates = 0
  /\ vidEscaped = 0
  /\ errDisposed = 0

videoFrame == <<cacheVars, driverVars, modelVars, imageVars, inflateVars, restVars>>

\* disposeTexture(texture) on a video texture or on errorTexture.
disposeTexture(textures, texture) ==
  IF texture \in DOMAIN textures
    THEN [textures EXCEPT ![texture].disposed = @ + 1] ELSE textures

\* updateSrc(oldData) up to its await. cleanUp() passes mesh.material.map to
\* disposeTexture, which reads texture.image: when the map is null that is a
\* TypeError, raised before the try block, and the call ends there.
updateSrc(m, src) ==
  IF m.mesh /\ m.map = NoTexture THEN
    /\ vid' = m
    /\ vidEscaped' = vidEscaped + 1
    /\ UNCHANGED <<vidPending, vidTextures, errDisposed>>
  ELSE
    /\ vid' = IF m.mesh THEN [m EXCEPT !.map = NoTexture] ELSE m
    /\ vidTextures' = IF m.mesh THEN disposeTexture(vidTextures, m.map) ELSE vidTextures
    /\ errDisposed' = IF m.mesh /\ m.map = ErrorTexture
                        THEN errDisposed + 1 ELSE errDisposed
    /\ vidPending' = Append(vidPending, src)
    /\ UNCHANGED vidEscaped

\* update(oldData): nothing happens for an empty or unchanged src.
media_video_update(m, oldSrc, src) ==
  IF src = EmptySrc \/ src = oldSrc
    THEN /\ vid' = m
         /\ UNCHANGED <<vidPending, vidTextures, vidEscaped, errDisposed>>
    ELSE updateSrc(m, src)

VideoCreate(src) ==
  /\ vid.state = "none" /\ vidUpdates < MaxVideoUpdates
  /\ media_video_update([vid EXCEPT !.state = "live", !.src = src], UndefinedSrc, src)
  /\ vidUpdates' = vidUpdates + 1
  /\ UNCHANGED videoFrame

VideoSetSrc(src) ==
  /\ vid.state = "live" /\ vidUpdates < MaxVideoUpdates
  /\ media_video_update([vid EXCEPT !.src = src], vid.src, src)
  /\ vidUpdates' = vidUpdates + 1
  /\ UNCHANGED videoFrame

\* remove(): cleanUp() on whatever the material shows.
VideoRemove ==
  /\ vid.state = "live"
  /\ vid' = [vid EXCEPT !.state = "removed"]
  /\ vidTextures' = IF vid.mesh THEN disposeTexture(vidTextures, vid.map) ELSE vidTextures
  /\ errDisposed' = IF vid.mesh /\ vid.map = ErrorTexture
                      THEN errDisposed + 1 ELSE errDisposed
  /\ vidEscaped' = IF vid.mesh /\ vid.map = NoTexture THEN vidEscaped + 1 ELSE vidEscaped
  /\ UNCHANGED <<vidPending, vidUpdates, videoFrame>>

\* The promise of the i-th pending createVideoTexture call settles and the
\* rest of that updateSrc() runs. On success a stale result is disposed and
\* dropped, a current one becomes this.video and the material map. On failure
\* the catch block selects errorTexture, whatever the current src is; the tail
\* then calls updatePlaybackState(true), which reads this.video.currentTime:
\* a TypeError outside the try block when no load has succeeded before.
VideoLoadSettles(i, ok) ==
  /\ i \in 1..Len(vidPending)
  /\ ok => Len(vidTextures) < MaxVideoTextures
  /\ LET src == vidPending[i]
         texture == Len(vidTextures) + 1
         stale == vid.src # src
     IN
     IF ok THEN
       /\ vidTextures' = Append(vidTextures,
                                [src |-> src, disposed |-> IF stale THEN 1 ELSE 0])
       /\ vid' = IF stale THEN vid
                          ELSE [vid EXCEPT !.mesh = TRUE, !.map = texture, !.video = TRUE]
       /\ UNCHANGED vidEscaped
     ELSE
       /\ vid' = [vid EXCEPT !.mesh = TRUE, !.map = ErrorTexture]
       /\ vidEscaped' = IF vid.video THEN vidEscaped ELSE vidEscaped + 1
       /\ UNCHANGED vidTextures
  /\ vidPending' = Without(vidPending, i)
  /\ UNCHANGED <<vidUpdates, errDisposed, videoFrame>>


\* ------------------------------------------------- inflation of a model
MaxNodes == 3
NumLoads == 2
LoadIds == 1..NumLoads

\* Node names: a legacy avatar name, which inflateEntities replaces by
\* "Spine", and an ordinary one.
NodeNames == {"Chest", "Cube"}
TemplateNames == {"Spine"}

\* Keys registered through AFRAME.GLTFModelPlus.registerComponent, those among
\* them whose inflator throws (defaultInflator when AFRAME.components has no
\* component of that name), and a key nobody registered.
RegisteredKeys == {"visible", "broken"}
ThrowingKeys == {"broken"}
ComponentKeys == RegisteredKeys \cup {"unknown"}

\* What getHubsComponents finds on a node: nothing, or the object of its
\* MOZ_hubs_components / HUBS_components extension or userData.components.
NoComponents == [has |-> FALSE, keys |-> {}]
NodeComponents ==
  {NoComponents} \cup {[has |-> TRUE, keys |-> {k}] : k \in ComponentKeys}

\* userData.gltfIndex of an object that was not made from a JSON node.
UndefinedIndex == -1
\* loadGLTF sets extras.gltfIndex = i on json.nodes[i]; the p-th node of the
\* list, counting from 1, gets p - 1.
gltfIndexOf(p) == p - 1
\* The identity transform a node is reset to.
Identity == 0

\* A scene of n nodes: node 1 is the root (gltf.scene, made from json.scenes and
\* so without a gltfIndex), node i > 1 is made from json.nodes[i - 2];
\* parent[i] < i, siblings are ordered by index. ids are the identities of the
\* THREE.Object3D instances; uuid and transform are the nodes' uuid and local
\* transform (node i starts with the transform i); holder tells whether
\* node.parent is still the node's parent in the asset or an entity's group.
Scenes(n) ==
  {sc \in [parent : [1..n -> 0..(n - 1)], name : [1..n -> NodeNames],
           comps : [1..n -> NodeComponents], ids : {[i \in 1..n |-> i]},
           uuid : {[i \in 1..n |-> i]}, transform : {[i \in 1..n |-> i]},
           holder : {[i \in 1..n |-> "parent"]},
           gltfIndex : {[i \in 1..n |-> IF i = 1 THEN UndefinedIndex
                                                 ELSE gltfIndexOf(i - 1)]},
           animations : {0}] :
     \A i \in 1..n : sc.parent[i] < i /\ (sc.parent[i] = 0 <=> i = 1)}

NodesOf(scene) == DOMAIN scene.parent

\* A consumer before its applySrc has called loadModel.
NoLoad(scene) ==
  [pc |-> "idle", scene |-> scene,
   el |-> [i \in NodesOf(scene) |-> FALSE],
   childEntities |-> [i \in NodesOf(scene) |-> <<>>],
   elTransform |-> [i \in NodesOf(scene) |-> Identity],
   elUuid |-> [i \in NodesOf(scene) |-> 0],
   indexToEntityMap |-> {}, attached |-> FALSE, inflated |-> <<>>]

\* The state of these variables in the specifications that do not inflate.
InflateIdle ==
  /\ cachedGltf = [parent |-> <<0>>, name |-> <<"Cube">>, comps |-> <<NoComponents>>,
                   ids |-> <<1>>, uuid |-> <<1>>, transform |-> <<1>>,
                   holder |-> <<"parent">>, gltfIndex |-> <<UndefinedIndex>>,
                   animations |-> 0]
  /\ templates = {}
  /\ loads = [l \in LoadIds |-> NoLoad(cachedGltf)]
  /\ nextObj = 1

\* A parsed asset is in the cache; no consumer has loaded it yet.
InflateInit ==
  /\ cachedGltf \in UNION {Scenes(n) : n \in 1..MaxNodes}
  /\ templates \in SUBSET TemplateNames
  /\ loads = [l \in LoadIds |-> NoLoad(cachedGltf)]
  /\ nextObj = Len(cachedGltf.ids)

inflateFrame == <<cacheVars, driverVars, modelVars, imageVars, videoVars, restVars>>

\* Mutant: loadModel hands out the cached scene itself.
cloneGltf_ReturnsCached(asset, base) == asset

\* cloneGltf: the animations array is the cached one, the scene is a copy
\* made of new objects, each with a uuid of its own.
cloneGltf(asset, base) ==
  [asset EXCEPT !.ids = [i \in DOMAIN asset.ids |-> base + i],
                !.uuid = [i \in DOMAIN asset.ids |-> base + i]]

\* loadModel(src, contentType, true) for an asset that is in the cache or
\* arrives in it: every branch returns cloneGltf of it.
LoadModel(l) ==
  /\ loads[l].pc = "idle"
  /\ \A b \in LoadIds : b < l => loads[b].pc \in {"model-loaded", "model-error"}
  /\ loads' = [loads EXCEPT ![l].pc = "loaded", ![l].scene = cloneGltf(cachedGltf, nextObj)]
  /\ nextObj' = nextObj + Len(cachedGltf.ids)
  /\ UNCHANGED <<cachedGltf, templates, inflateFrame>>

\* node.children.slice(0)
children(scene, n) ==
  SelectSeq([i \in 1..Len(scene.parent) |-> i], LAMBDA i : scene.parent[i] = n)

\* The renaming of legacy avatar node names at the top of inflateEntities.
LegacyName(name) ==
  CASE name = "Chest" -> "Spine"
    [] name = "Root Scene" -> "AvatarRoot"
    [] name = "Bot_Skinned" -> "AvatarMesh"
    [] OTHER -> name

getHubsComponents(scene, n) == scene.comps[n]

RECURSIVE inflateEntities(_, _, _, _)
RECURSIVE inflateEntities_AlwaysCreates(_, _, _, _)
RECURSIVE inflateEntities_IgnoresChildren(_, _, _, _)

\* Mutant: every node gets an entity.
inflateEntities_AlwaysCreates(scene, node, tmpl, isRoot) ==
  [el |-> TRUE,
   childEntities |-> SelectSeq(children(scene, node),
                       LAMBDA c : inflateEntities_AlwaysCreates(scene, c, tmpl, FALSE).el)]

\* Mutant: a node without behaviour is dropped even when a child got an entity.
inflateEntities_IgnoresChildren(scene, node, tmpl, isRoot) ==
  LET childEntities == SelectSeq(children(scene, node),
                         LAMBDA c : inflateEntities_IgnoresChildren(scene, c, tmpl, FALSE).el)
      nodeHasBehavior == \/ getHubsComponents(scene, node).has
                         \/ LegacyName(scene.name[node]) \in tmpl
  IN IF ~nodeHasBehavior /\ ~isRoot
       THEN [el |-> FALSE, childEntities |-> <<>>]
       ELSE [el |-> TRUE, childEntities |-> childEntities]

\* inflateEntities(indexToEntityMap, node, templates, isRoot): whether an
\* entity is returned for node, and the child entities appended to it.
inflateEntities(scene, node, tmpl, isRoot) ==
  LET childEntities == SelectSeq(children(scene, node),
                         LAMBDA c : inflateEntities(scene, c, tmpl, FALSE).el)
      nodeHasBehavior == \/ getHubsComponents(scene, node).has
                         \/ LegacyName(scene.name[node]) \in tmpl
  IN IF ~nodeHasBehavior /\ childEntities = <<>> /\ ~isRoot
       THEN [el |-> FALSE, childEntities |-> <<>>]
       ELSE [el |-> TRUE, childEntities |-> childEntities]

\* Mutant: every node that has a gltfIndex gets an entry.
indexEntries_EveryNode(scene, made) ==
  {<<scene.gltfIndex[n], n>> : n \in {m \in NodesOf(scene) :
                                        scene.gltfIndex[m] # UndefinedIndex}}

\* indexToEntityMap after inflateEntities: gltfIndex -> the entity made for the
\* node (named by the node), for the nodes that got one and have a gltfIndex.
indexEntries(scene, made) ==
  {<<scene.gltfIndex[n], n>> : n \in {m \in NodesOf(scene) :
                                        made[m].el /\ scene.gltfIndex[m] # UndefinedIndex}}

\* applySrc with data.inflate, from the model being set to the await of
\* nextTick: the entity tree is built from the root and appended to the host
\* element. Every node is visited, so every legacy name is replaced. A node
\* that gets an entity hands its transform and its uuid to the entity's
\* group, is reset to the identity, gets a new uuid from generateUUID and is
\* moved under the group by setObject3D.
InflateEntities(l) ==
  /\ loads[l].pc = "loaded"
  /\ LET sc == loads[l].scene
         made == [n \in NodesOf(sc) |-> inflateEntities(sc, n, templates, n = 1)]
     IN loads' = [loads EXCEPT
          ![l].pc = "inflated",
          ![l].scene.name = [n \in NodesOf(sc) |-> LegacyName(sc.name[n])],
          ![l].scene.transform = [n \in NodesOf(sc) |->
                                    IF made[n].el THEN Identity ELSE sc.transform[n]],
          ![l].scene.uuid = [n \in NodesOf(sc) |->
                               IF made[n].el THEN nextObj + n ELSE sc.uuid[n]],
          ![l].scene.holder = [n \in NodesOf(sc) |->
                                 IF made[n].el THEN "entity" ELSE sc.holder[n]],
          ![l].el = [n \in NodesOf(sc) |-> made[n].el],
          ![l].childEntities = [n \in NodesOf(sc) |-> made[n].childEntities],
          ![l].elTransform = [n \in NodesOf(sc) |->
                                IF made[n].el THEN sc.transform[n] ELSE Identity],
          ![l].elUuid = [n \in NodesOf(sc) |-> IF made[n].el THEN sc.uuid[n] ELSE 0],
          ![l].indexToEntityMap = indexEntries(sc, made),
          ![l].attached = TRUE]
  /\ nextObj' = nextObj + Len(loads[l].scene.ids)
  /\ UNCHANGED <<cachedGltf, templates, inflateFrame>>

\* object3D.traverse from the root entity: an entity's node, then its child
\* entities in order.
RECURSIVE traverse(_, _)
traverse(load, n) ==
  LET RECURSIVE over(_)
      over(kids) == IF kids = <<>> THEN <<>>
                    ELSE traverse(load, Head(kids)) \o over(Tail(kids))
  IN <<n>> \o over(load.childEntities[n])

\* The inflators inflateComponents calls for one node: those of its keys that
\* are registered; other keys are passed over.
InflatorsOf(load, n) == getHubsComponents(load.scene, n).keys \cap RegisteredKeys

Throws(load, n) == InflatorsOf(load, n) \cap ThrowingKeys # {}

\* The nodes whose inflators ran to the end, in order: the traversal stops at
\* the first inflator that throws.
RECURSIVE inflateComponents(_, _)
inflateComponents(load, order) ==
  IF order = <<>> \/ Throws(load, Head(order))
    THEN <<>>
    ELSE <<Head(order)>> \o inflateComponents(load, Tail(order))

\* applySrc after nextTick: inflateComponents, then either the rest of the
\* try block up to model-loaded, or the catch block and model-error. The
\* catch block releases src and emits; it does not detach this.inflatedEl.
InflateComponents(l) ==
  /\ loads[l].pc = "inflated"
  /\ LET order == traverse(loads[l], 1)
         done == inflateComponents(loads[l], order)
     IN loads' = [loads EXCEPT
          ![l].inflated = done,
          ![l].pc = IF Len(done) = Len(order) THEN "model-loaded" ELSE "model-error"]
  /\ UNCHANGED <<cachedGltf, templates, nextObj, inflateFrame>>


\* ------------------------------------------------ loadGLTF: the JSON document
\* Nodes in the document's node list, and the versions an asset is stamped with.
MaxJsonNodes == 2
MaxVersion == 3
\* A top-level MOZ_hubs_components extension without a "version" property.
NoVersion == -1

ComponentNames == {"heightfield", "nav-mesh", "visible"}

\* An extension object of a node: absent, or its component keys.  Component
\* data are objects, so a key that is present is truthy.
ExtensionValues ==
  {NoComponents} \cup {[has |-> TRUE, keys |-> k] : k \in SUBSET ComponentNames}

\* The nodes drawn: any MOZ_hubs_components, and the older HUBS_components
\* either absent or with the obsolete pair of components.
JsonNodes ==
  [MOZ_hubs_components : ExtensionValues,
   HUBS_components : {NoComponents, [has |-> TRUE, keys |-> {"heightfield", "nav-mesh"}]},
   gltfIndex : {UndefinedIndex}]

\* json.extensions.MOZ_hubs_components of the document itself.
TopExtensions ==
  {[has |-> FALSE, version |-> NoVersion]}
    \cup {[has |-> TRUE, version |-> v] : v \in {NoVersion} \cup 0..MaxVersion}

\* The documents with a list of n nodes and, for n = 0, those without
\* json.nodes.
Jsons(n) ==
  {[extension |-> e, hasNodes |-> TRUE, nodes |-> ns] :
     e \in TopExtensions, ns \in [1..n -> JsonNodes]}
    \cup (IF n = 0
            THEN {[extension |-> e, hasNodes |-> FALSE, nodes |-> <<>>] : e \in TopExtensions}
            ELSE {})

\* Materials of a document, and the two techniques loadModel chooses between.
MaxMaterials == 2
Techniques == {"KHR_materials_unlit", "pbrMetallicRoughness"}
\* material.extensions.MOZ_alt_materials[technique] === undefined, which also
\* stands for a material without extensions or without MOZ_alt_materials.
NoAlt == -1

\* json.materials of n materials. id names the material object; alts is its
\* MOZ_alt_materials table, an index into json.materials per technique.
\* The materials of a parsed document are distinct objects.
MaterialLists(n) ==
  {[i \in 1..n |-> [id |-> i, alts |-> tables[i]]] :
     tables \in [1..n -> [Techniques -> {NoAlt} \cup 0..(n - 1)]]}

MaterialsIdle ==
  materialPass = [materials |-> <<>>, original |-> <<>>,
                  preferredTechnique |-> "pbrMetallicRoughness", pc |-> "idle"]

\* The parser has parsed a document; loadModel has chosen the technique.
MaterialsInit ==
  \E n \in 0..MaxMaterials, technique \in Techniques :
    \E ms \in MaterialLists(n) :
      materialPass = [materials |-> ms, original |-> ms,
                      preferredTechnique |-> technique, pc |-> "parsed"]

MigrationIdle ==
  /\ MaterialsIdle
  /\ parserJson = [extension |-> [has |-> FALSE, version |-> NoVersion],
                   hasNodes |-> FALSE, nodes |-> <<>>]
  /\ originalJson = parserJson
  /\ migrations = 0
  /\ parserPc = "idle"

\* GLTFParser has parsed the fetched text into parser.json.
MigrationInit ==
  /\ MaterialsIdle
  /\ \E n \in 0..MaxJsonNodes : parserJson \in Jsons(n)
  /\ originalJson = parserJson
  /\ migrations = 0
  /\ parserPc = "parsed"

\* loadGLTF's version: 0 unless the top-level extension has its own "version".
versionOf(json) ==
  IF json.extension.has /\ json.extension.version # NoVersion
    THEN json.extension.version
    ELSE 0

\* The components object runMigration looks at: MOZ_hubs_components if the
\* node has one, else HUBS_components, else null.
componentsOf(node) ==
  IF node.MOZ_hubs_components.has THEN node.MOZ_hubs_components
  ELSE IF node.HUBS_components.has THEN node.HUBS_components
  ELSE NoComponents

\* The predicate handed to json.nodes.find.
isOldHeightfieldNode(node) ==
  LET components == componentsOf(node) IN
    /\ components.has
    /\ "heightfield" \in components.keys
    /\ "nav-mesh" \in components.keys

\* Array.prototype.find: the first element that satisfies the predicate
\* (0 stands for undefined).
find(nodes) ==
  IF \E i \in 1..Len(nodes) : isOldHeightfieldNode(nodes[i])
    THEN CHOOSE i \in 1..Len(nodes) :
           /\ isOldHeightfieldNode(nodes[i])
           /\ \A j \in 1..(i - 1) : ~isOldHeightfieldNode(nodes[j])
    ELSE 0

\* delete oldHeightfieldNode.extensions.<...>.heightfield
deleteHeightfield(node) ==
  IF node.MOZ_hubs_components.has
    THEN [node EXCEPT !.MOZ_hubs_components.keys = @ \ {"heightfield"}]
  ELSE IF node.HUBS_components.has
    THEN [node EXCEPT !.HUBS_components.keys = @ \ {"heightfield"}]
  ELSE node

\* Mutant: the migration runs whatever the version.
runMigration_AnyVersion(version, json) ==
  IF ~json.hasNodes THEN [json |-> json, threw |-> TRUE]
  ELSE LET oldHeightfieldNode == find(json.nodes) IN
    [json |-> IF oldHeightfieldNode = 0 THEN json
              ELSE [json EXCEPT !.nodes[oldHeightfieldNode] = deleteHeightfield(@)],
     threw |-> FALSE]

\* runMigration(version, json): the document it leaves, and whether it threw
\* (json.nodes.find on a document without a node list).
runMigration(version, json) ==
  IF version < 2
    THEN IF ~json.hasNodes THEN [json |-> json, threw |-> TRUE]
         ELSE LET oldHeightfieldNode == find(json.nodes) IN
           [json |-> IF oldHeightfieldNode = 0 THEN json
                     ELSE [json EXCEPT !.nodes[oldHeightfieldNode] = deleteHeightfield(@)],
            threw |-> FALSE]
    ELSE [json |-> json, threw |-> FALSE]

migrationFrame == <<cacheVars, driverVars, modelVars, imageVars, videoVars, inflateVars, pdfVars,
                    gifVars, vtex, materialPass>>

\* loadGLTF reads the version and calls runMigration(version, parser.json).
LoadGLTF_runMigration ==
  /\ parserPc = "parsed"
  /\ LET out == runMigration(versionOf(parserJson), parserJson) IN
       /\ parserJson' = out.json
       /\ parserPc' = IF out.threw THEN "rejected" ELSE "migrated"
  /\ migrations' = 1
  /\ UNCHANGED <<originalJson, migrationFrame>>

\* loadGLTF sets node.extras.gltfIndex = i on every node of json.nodes, if
\* the document has a node list.
LoadGLTF_tagNodes ==
  /\ parserPc = "migrated"
  /\ parserJson' = [parserJson EXCEPT !.nodes =
       [i \in 1..Len(parserJson.nodes) |->
          [parserJson.nodes[i] EXCEPT !.gltfIndex = gltfIndexOf(i)]]]
  /\ parserPc' = "tagged"
  /\ UNCHANGED <<originalJson, migrations, migrationFrame>>

\* The migration step applied once more to the document it has migrated.
RunMigrationAgain ==
  /\ parserPc \in {"migrated", "tagged"}
  /\ migrations = 1
  /\ parserJson' = runMigration(versionOf(parserJson), parserJson).json
  /\ migrations' = 2
  /\ UNCHANGED <<originalJson, parserPc, migrationFrame>>

\* The loop of loadGLTF over materials, from index i on (i counts from 1):
\* materials[i] = materials[altMaterialIndex], read from the list as it is
\* at that moment.
RECURSIVE swapMaterials(_, _, _)
swapMaterials(materials, preferredTechnique, i) ==
  IF i > Len(materials) THEN materials
  ELSE LET altMaterialIndex == materials[i].alts[preferredTechnique] IN
       swapMaterials(IF altMaterialIndex # NoAlt
                       THEN [materials EXCEPT ![i] = materials[altMaterialIndex + 1]]
                       ELSE materials,
                     preferredTechnique, i + 1)

materialFrame == <<cacheVars, driverVars, modelVars, imageVars, videoVars, inflateVars, pdfVars,
                   gifVars, vtex, parserJson, originalJson, migrations, parserPc>>

\* loadGLTF's substitution pass over parser.json.materials.
LoadGLTF_swapMaterials ==
  /\ materialPass.pc = "parsed"
  /\ materialPass' = [materialPass EXCEPT
       !.materials = swapMaterials(@, materialPass.preferredTechnique, 1),
       !.pc = "swapped"]
  /\ UNCHANGED materialFrame

\* ------------------------------------------------------------------ media-pdf
\* update() calls the component gets, and the largest page index.
MaxPdfUpdates == 3
MaxPdfIndex == 1
\* this.renderTask = null.
NoTask == 0

\* The component before its entity exists: init() has made the canvas and its
\* texture; this.pdf, this.mesh and this.renderTask are unset.
NoPdf ==
  [state |-> "none", src |-> EmptySrc, index |-> 0, projection |-> "flat",
   renderTask |-> NoTask, pdf |-> EmptySrc, map |-> "none"]

PdfInit ==
  /\ pdfc = NoPdf
  /\ pdfCalls = <<>>
  /\ pdfJobs = <<>>
  /\ renderTasks = <<>>

pdfFrame == <<cacheVars, driverVars, modelVars, imageVars, videoVars, inflateVars,
              migrationVars, gifVars, vtex>>

PdfIdle == pdfJobs = <<>>

\* An update() call: the src and index it read, oldData.src, where it waits.
PdfCall(src, index, oldSrc, pc, task) ==
  [src |-> src, index |-> index, oldSrc |-> oldSrc, pc |-> pc, task |-> task]

\* The catch block and what follows it: errorTexture is put on the mesh.
pdf_catch(m) == [m EXCEPT !.map = "error"]

\* update() from pdf-loading (line 910) to its next await: getDocument if the
\* src differs from oldData.src, else this.pdf.getPage, which throws a
\* TypeError while this.pdf is unset.
pdf_load(m, call) ==
  IF call.src # call.oldSrc THEN [m |-> m, call |-> [call EXCEPT !.pc = "getDocument"]]
  ELSE IF m.pdf = EmptySrc THEN [m |-> pdf_catch(m), call |-> [call EXCEPT !.pc = "error"]]
  ELSE [m |-> m, call |-> [call EXCEPT !.pc = "getPage"]]

\* update(oldData) up to its first await; m is the component with its new data.
media_pdf_update(m, oldSrc) ==
  LET call == PdfCall(m.src, m.index, oldSrc, "update", NoTask)
      out == IF m.src = EmptySrc
               THEN [m |-> m, call |-> [call EXCEPT !.pc = "returned"]]
             ELSE IF m.renderTask # NoTask
               THEN IF renderTasks[m.renderTask] = "rejected"
                      THEN [m |-> pdf_catch(m), call |-> [call EXCEPT !.pc = "error"]]
                      ELSE [m |-> m, call |-> [call EXCEPT !.pc = "awaitRender",
                                                           !.task = m.renderTask]]
             ELSE pdf_load(m, call)
  IN /\ pdfc' = out.m
     /\ pdfCalls' = Append(pdfCalls, out.call)
     /\ UNCHANGED <<pdfJobs, renderTasks>>

\* The entity is created with the component on it: init(), then update({}).
PdfCreate(src, index) ==
  /\ pdfc.state = "none"
  /\ media_pdf_update([pdfc EXCEPT !.state = "live", !.src = src, !.index = index],
                      UndefinedSrc)
  /\ UNCHANGED pdfFrame

\* setAttribute("media-pdf", ...) with data that differ: update(oldData).
PdfSetData(src, index, projection) ==
  /\ PdfIdle /\ pdfc.state = "live" /\ Len(pdfCalls) < MaxPdfUpdates
  /\ <<src, index, projection>> # <<pdfc.src, pdfc.index, pdfc.projection>>
  /\ media_pdf_update([pdfc EXCEPT !.src = src, !.index = index,
                                   !.projection = projection], pdfc.src)
  /\ UNCHANGED pdfFrame

\* The entity is removed: remove() leaves the fields above alone.
PdfRemove ==
  /\ PdfIdle /\ pdfc.state = "live"
  /\ pdfc' = [pdfc EXCEPT !.state = "removed"]
  /\ UNCHANGED <<pdfCalls, pdfJobs, renderTasks, pdfFrame>>

\* pdfjs.getDocument(src) or this.pdf.getPage(index + 1) of call k settles.
PdfLoadSettles(k, ok) ==
  /\ PdfIdle
  /\ k \in 1..Len(pdfCalls) /\ pdfCalls[k].pc \in {"getDocument", "getPage"}
  /\ pdfJobs' = <<[k |-> k, ok |-> ok]>>
  /\ UNCHANGED <<pdfc, pdfCalls, renderTasks, pdfFrame>>

\* Render task t settles: the call that started it resumes first, then the
\* calls that found it in this.renderTask and waited, in the order they came.
RenderSettles(t, ok) ==
  /\ PdfIdle
  /\ t \in 1..Len(renderTasks) /\ renderTasks[t] = "pending"
  /\ renderTasks' = [renderTasks EXCEPT ![t] = IF ok THEN "done" ELSE "rejected"]
  /\ LET ks == [k \in 1..Len(pdfCalls) |-> [k |-> k, ok |-> ok]]
         awaits(pc) == SelectSeq(ks, LAMBDA j :
                         pdfCalls[j.k].pc = pc /\ pdfCalls[j.k].task = t)
     IN pdfJobs' = awaits("render") \o awaits("awaitRender")
  /\ UNCHANGED <<pdfc, pdfCalls, pdfFrame>>

\* The oldest ready continuation runs up to its next await or its return.
PdfRunJob ==
  /\ pdfJobs # <<>>
  /\ pdfJobs' = Tail(pdfJobs)
  /\ LET k == Head(pdfJobs).k
         call == pdfCalls[k]
         stale == call.src # pdfc.src \/ call.index # pdfc.index
         to(pc) == [pdfCalls EXCEPT ![k].pc = pc]
     IN
     IF ~Head(pdfJobs).ok THEN
       /\ pdfc' = pdf_catch(pdfc)
       /\ pdfCalls' = to("error")
       /\ UNCHANGED renderTasks
     ELSE CASE call.pc = "awaitRender" ->
          \* lines 906-908
          IF stale THEN
            /\ pdfCalls' = to("returned")
            /\ UNCHANGED <<pdfc, renderTasks>>
          ELSE
            /\ pdfc' = pdf_load(pdfc, call).m
            /\ pdfCalls' = [pdfCalls EXCEPT ![k] = pdf_load(pdfc, call).call]
            /\ UNCHANGED renderTasks
       [] call.pc = "getDocument" ->
          \* lines 914-920
          IF call.src # pdfc.src THEN
            /\ pdfCalls' = to("returned")
            /\ UNCHANGED <<pdfc, renderTasks>>
          ELSE
            /\ pdfc' = [pdfc EXCEPT !.pdf = call.src]
            /\ pdfCalls' = to("getPage")
            /\ UNCHANGED renderTasks
       [] call.pc = "getPage" ->
          \* lines 921-934
          IF stale THEN
            /\ pdfCalls' = to("returned")
            /\ UNCHANGED <<pdfc, renderTasks>>
          ELSE
            /\ renderTasks' = Append(renderTasks, "pending")
            /\ pdfc' = [pdfc EXCEPT !.renderTask = Len(renderTasks) + 1]
            /\ pdfCalls' = [pdfCalls EXCEPT ![k].pc = "render",
                                            ![k].task = Len(renderTasks) + 1]
       [] call.pc = "render" ->
          \* lines 936-969
          /\ pdfc' = IF stale THEN [pdfc EXCEPT !.renderTask = NoTask]
                     ELSE [pdfc EXCEPT !.renderTask = NoTask, !.map = "canvas"]
          /\ pdfCalls' = to(IF stale THEN "returned" ELSE "loaded")
          /\ UNCHANGED renderTasks
  /\ UNCHANGED pdfFrame

\* ----------------------------------------------------------------- GIFTexture
\* Frames of a GIF, the largest frame delay, and how far the clock runs.
MaxFrames == 2
MaxDelay == 2
MaxTime == 4
\* Concurrent createGIFTexture calls (1..NumGifCalls).
NumGifCalls == 2
\* The largest width and height of a GIF's frames.
MaxSide == 2
GifCallIds == 1..NumGifCalls

\* new GIFTexture(frames, delays, disposals) at time t: frame 0 is current.
\* Frames are numbered from 0 as in the code; delays[f + 1] is delays[f].
GIFTexture(frames, delays, disposals, t) ==
  [frames |-> frames, delays |-> delays, disposals |-> disposals,
   frame |-> 0, frameStartTime |-> t]

\* createGIFTexture(url) before it is called: the promise does not exist yet.
NoGifLoad ==
  [pc |-> "none", promise |-> "pending", frames |-> 0, images |-> <<>>,
   loadCnt |-> 0, resolves |-> 0]

GifLoadsIdle == gifLoads = [i \in GifCallIds |-> NoGifLoad]

\* No clearRect call.
NoRect == [w |-> 0, h |-> 0]

\* The constructor's canvas: image.width and image.height are those of
\* frames[0]; nothing has been cleared on it.
Canvas(width, height) == [width |-> width, height |-> height, clearRect |-> NoRect]

GifIdle ==
  /\ gif = GIFTexture(1, <<0>>, <<1>>, 0)
  /\ canvas = Canvas(1, 1)
  /\ now = 0
  /\ GifLoadsIdle

\* createGIFTexture has decoded a GIF with at least one frame.
GifInit ==
  /\ \E n \in 1..MaxFrames :
       \E delays \in [1..n -> 0..MaxDelay], disposals \in [1..n -> {1, 2}] :
         gif = GIFTexture(n, delays, disposals, 0)
  /\ \E width \in 1..MaxSide, height \in 1..MaxSide : canvas = Canvas(width, height)
  /\ now = 0
  /\ GifLoadsIdle

gifFrame == <<cacheVars, driverVars, modelVars, imageVars, videoVars, inflateVars,
              migrationVars, pdfVars, vtex>>

\* Mutant: the frame advances as soon as the delay has been reached.
GIFTexture_update_AtDelay(t, n) ==
  IF n - t.frameStartTime >= t.delays[t.frame + 1]
    THEN [t EXCEPT !.frame = (t.frame + 1) % t.frames, !.frameStartTime = n]
    ELSE t

\* GIFTexture.update() with Date.now() = n.
GIFTexture_update(t, n) ==
  IF n - t.frameStartTime > t.delays[t.frame + 1]
    THEN [t EXCEPT !.frame = (t.frame + 1) % t.frames, !.frameStartTime = n]
    ELSE t

\* What update() does to the canvas with Date.now() = n: when the frame is
\* left and its disposal is 2, this._ctx.clearRect(0, 0, this.image.width,
\* this.image.width); then the next frame is drawn.
GIFTexture_update_canvas(t, n, c) ==
  IF n - t.frameStartTime > t.delays[t.frame + 1]
    THEN [c EXCEPT !.clearRect = IF t.disposals[t.frame + 1] = 2
                                   THEN [w |-> c.width, h |-> c.width]
                                   ELSE NoRect]
    ELSE c

\* The render loop calls texture.update().
GifUpdate ==
  /\ gif' = GIFTexture_update(gif, now)
  /\ canvas' = GIFTexture_update_canvas(gif, now, canvas)
  /\ UNCHANGED <<now, gifLoads, gifFrame>>

\* Time passes.
ClockAdvances ==
  /\ now < MaxTime
  /\ now' = now + 1
  /\ UNCHANGED <<gif, canvas, gifLoads, gifFrame>>

\* ------------------------------------------------------------ createGIFTexture
\* The promise executor's chain: fetch, r.arrayBuffer(), parseGIF, then one
\* Image per decoded frame. pc names the step the call waits for.
gifLoadFrame == <<gif, now, canvas, gifFrame>>

\* .catch(reject): a rejection anywhere in the chain rejects the promise.
gifLoad_reject(l) ==
  [l EXCEPT !.pc = "caught",
            !.promise = IF @ = "pending" THEN "rejected" ELSE @]

\* img.onload of frame f: loadCnt++, and resolve(texture) when loadCnt equals
\* frames.length.
img_onload(l, f) ==
  LET l1 == [l EXCEPT !.images[f] = "loaded", !.loadCnt = @ + 1] IN
  IF l1.loadCnt = l1.frames
    THEN [l1 EXCEPT !.promise = IF @ = "pending" THEN "resolved" ELSE @,
                    !.resolves = @ + 1]
    ELSE l1

\* The then-callback on the decoder's result: for each of the n frames an
\* Image is created, given its onload handler and its src.
gifLoad_onParsed(l, n) ==
  [l EXCEPT !.pc = "images", !.frames = n,
            !.images = [f \in 1..n |-> "loading"]]

\* createGIFTexture(url): the executor starts the fetch. Calls are numbered
\* in the order they are made.
CreateGIFTexture(i) ==
  /\ gifLoads[i].pc = "none"
  /\ \A b \in GifCallIds : b < i => gifLoads[b].pc # "none"
  /\ gifLoads' = [gifLoads EXCEPT ![i].pc = "fetch"]
  /\ UNCHANGED gifLoadFrame

\* fetch(url) settles.
GifFetchSettles(i, ok) ==
  /\ gifLoads[i].pc = "fetch"
  /\ gifLoads' = [gifLoads EXCEPT ![i] =
                    IF ok THEN [@ EXCEPT !.pc = "arrayBuffer"] ELSE gifLoad_reject(@)]
  /\ UNCHANGED gifLoadFrame

\* r.arrayBuffer() settles.
GifArrayBufferSettles(i, ok) ==
  /\ gifLoads[i].pc = "arrayBuffer"
  /\ gifLoads' = [gifLoads EXCEPT ![i] =
                    IF ok THEN [@ EXCEPT !.pc = "parseGIF"] ELSE gifLoad_reject(@)]
  /\ UNCHANGED gifLoadFrame

\* The decoder answers with n frames, or fails.
ParseGIFSettles(i, ok, n) ==
  /\ gifLoads[i].pc = "parseGIF"
  /\ gifLoads' = [gifLoads EXCEPT ![i] =
                    IF ok THEN gifLoad_onParsed(@, n) ELSE gifLoad_reject(@)]
  /\ UNCHANGED gifLoadFrame

\* The Image of frame f has loaded: its onload handler runs.
FrameImageLoads(i, f) ==
  /\ gifLoads[i].pc = "images"
  /\ f \in 1..gifLoads[i].frames /\ gifLoads[i].images[f] = "loading"
  /\ gifLoads' = [gifLoads EXCEPT ![i] = img_onload(@, f)]
  /\ UNCHANGED gifLoadFrame

\* The Image of frame f fails to load: it has no onerror handler.
FrameImageFails(i, f) ==
  /\ gifLoads[i].pc = "images"
  /\ f \in 1..gifLoads[i].frames /\ gifLoads[i].images[f] = "loading"
  /\ gifLoads' = [gifLoads EXCEPT ![i].images[f] = "failed"]
  /\ UNCHANGED gifLoadFrame

\* --------------------------------------------------------- createVideoTexture
\* poll() runs and HLS error events the call gets.
MaxPolls == 3
MaxHlsErrors == 2

\* How the url is played: a hubs:// media stream, hls.js, the browser's own
\* HLS support, HLS with neither, or a plain video file.
VideoKinds == {"stream", "hls", "nativeHls", "unsupported", "file"}
HlsErrorTypes == {"networkError", "mediaError", "otherError"}

\* createVideoEl() sets neither width nor height on the element, so both stay 0;
\* videoWidth and videoHeight are 0 until the browser knows the frame size.
NoVideoTexture(kind) ==
  [kind |-> kind, pc |-> "start", promise |-> "pending",
   videoWidth |-> 0, videoHeight |-> 0, width |-> 0, height |-> 0,
   resolvedWidth |-> 0, resolvedHeight |-> 0,
   timer |-> FALSE, polls |-> 0, errors |-> 0, startLoads |-> 0, recoveries |-> 0]

VideoTextureIdle == vtex = NoVideoTexture("file")

VideoTextureInit == \E kind \in VideoKinds : vtex = NoVideoTexture(kind)

vtexFrame == <<cacheVars, driverVars, modelVars, imageVars, videoVars, inflateVars,
               migrationVars, pdfVars, gifVars>>

\* resolve(texture) / reject(e): a promise settles once.
resolve(v) ==
  IF v.promise = "pending"
    THEN [v EXCEPT !.promise = "resolved",
                   !.resolvedWidth = IF v.videoWidth # 0 THEN v.videoWidth ELSE v.width,
                   !.resolvedHeight = IF v.videoHeight # 0 THEN v.videoHeight ELSE v.height]
    ELSE v

reject(v) == IF v.promise = "pending" THEN [v EXCEPT !.promise = "rejected"] ELSE v

\* Mutant: poll() is content with one known dimension.
poll_EitherDimension(v) ==
  IF (IF v.videoHeight # 0 THEN v.videoHeight ELSE v.height) # 0
       \/ (IF v.videoWidth # 0 THEN v.videoWidth ELSE v.width) # 0
    THEN resolve([v EXCEPT !.timer = FALSE, !.polls = @ + 1])
    ELSE [v EXCEPT !.timer = TRUE, !.polls = @ + 1]

\* poll(): resolve if (videoHeight || height) && (videoWidth || width), else
\* setTimeout(poll, 500).
poll(v) ==
  IF (IF v.videoHeight # 0 THEN v.videoHeight ELSE v.height) # 0
       /\ (IF v.videoWidth # 0 THEN v.videoWidth ELSE v.width) # 0
    THEN resolve([v EXCEPT !.timer = FALSE, !.polls = @ + 1])
    ELSE [v EXCEPT !.timer = TRUE, !.polls = @ + 1]

\* Mutant: every fatal error rejects.
hls_onError_FatalRejects(v, fatal, type) ==
  LET v1 == [v EXCEPT !.errors = @ + 1] IN
    IF fatal THEN reject(v1) ELSE v1

\* The handler of HLS.Events.ERROR.
hls_onError(v, fatal, type) ==
  LET v1 == [v EXCEPT !.errors = @ + 1] IN
    IF ~fatal THEN v1
    ELSE IF type = "networkError" THEN [v1 EXCEPT !.startLoads = @ + 1]
    ELSE IF type = "mediaError" THEN [v1 EXCEPT !.recoveries = @ + 1]
    ELSE reject(v1)

\* createVideoTexture(url, contentType) up to the await on getMediaStream, or
\* to the end of the executor, the first poll() included.
CreateVideoTexture ==
  /\ vtex.pc = "start"
  /\ vtex' = IF vtex.kind = "stream" THEN [vtex EXCEPT !.pc = "getMediaStream"]
             ELSE IF vtex.kind = "unsupported"
               THEN poll(reject([vtex EXCEPT !.pc = "polling"]))
             ELSE poll([vtex EXCEPT !.pc = "polling"])
  /\ UNCHANGED vtexFrame

\* getMediaStream settles; if it rejects, the executor throws and stops there.
GetMediaStreamSettles(ok) ==
  /\ vtex.pc = "getMediaStream"
  /\ vtex' = IF ok THEN poll([vtex EXCEPT !.pc = "polling"])
             ELSE [vtex EXCEPT !.pc = "threw"]
  /\ UNCHANGED vtexFrame

\* The browser learns the size of the video's frames.
VideoSizeKnown(w, h) ==
  /\ vtex.pc = "polling"
  /\ <<vtex.videoWidth, vtex.videoHeight>> # <<w, h>>
  /\ vtex.videoWidth = 0 \/ vtex.videoWidth = w
  /\ vtex.videoHeight = 0 \/ vtex.videoHeight = h
  /\ vtex' = [vtex EXCEPT !.videoWidth = w, !.videoHeight = h]
  /\ UNCHANGED vtexFrame

\* The timer set by poll() fires.
PollFires ==
  /\ vtex.timer /\ vtex.polls < MaxPolls
  /\ vtex' = poll(vtex)
  /\ UNCHANGED vtexFrame

\* hls.js reports an error.
HlsError(fatal, type) ==
  /\ vtex.kind = "hls" /\ vtex.pc = "polling" /\ vtex.errors < MaxHlsErrors
  /\ vtex' = hls_onError(vtex, fatal, type)
  /\ UNCHANGED vtexFrame

\* videoEl.onerror = reject.
VideoElError ==
  /\ vtex.kind \in {"nativeHls", "file"} /\ vtex.pc = "polling"
  /\ vtex.promise = "pending"
  /\ vtex' = reject(vtex)
  /\ UNCHANGED vtexFrame

\* The state of the variables above in the specifications that do not use them.
RestIdle == MigrationIdle /\ PdfInit /\ GifIdle /\ VideoTextureIdle

\* ------------------------------------------------------ the specifications
InitModel == CacheInit /\ DriverInit /\ ModelInit /\ ImageInit /\ VideoInit /\ InflateIdle /\ RestIdle

NextModel ==
  \/ \E c \in ModelIds, src \in SrcValues, useCache \in BOOLEAN, inflate \in BOOLEAN :
       ModelCreate(c, src, useCache, inflate)
  \/ \E c \in ModelIds, src \in SrcValues : ModelSetSrc(c, src)
  \/ \E c \in ModelIds : ModelRemove(c)
  \/ \E src \in Keys, ok \in BOOLEAN : LoadGLTFSettles(src, ok)
  \/ \E i \in 1..Len(macroWaiting), ok \in BOOLEAN : UncachedLoadSettles(i, ok)
  \/ \E i \in 1..Len(macroWaiting), ok \in BOOLEAN : NextTickFires(i, ok)
  \/ RunJob

SpecModel == InitModel /\ [][NextModel]_vars

InitImage == CacheInit /\ DriverInit /\ ModelInit /\ ImageInit /\ VideoInit /\ InflateIdle /\ RestIdle

NextImage ==
  \/ \E c \in ImageIds, src \in ImageSrcValues, contentType \in ContentTypes :
       ImageCreate(c, src, contentType)
  \/ \E c \in ImageIds, src \in ImageSrcValues, contentType \in ContentTypes :
       ImageSetSrc(c, src, contentType)
  \/ \E c \in ImageIds : ImageRemove(c)
  \/ \E src \in Keys, ok \in BOOLEAN : TextureSettles(src, ok)
  \/ ImageRunJob

SpecImage == InitImage /\ [][NextImage]_vars

InitVideo == CacheInit /\ DriverInit /\ ModelInit /\ ImageInit /\ VideoInit /\ InflateIdle /\ RestIdle

NextVideo ==
  \/ \E src \in SrcValues : VideoCreate(src)
  \/ \E src \in SrcValues : VideoSetSrc(src)
  \/ VideoRemove
  \/ \E i \in 1..MaxVideoUpdates, ok \in BOOLEAN : VideoLoadSettles(i, ok)

SpecVideo == InitVideo /\ [][NextVideo]_vars

InitInflate == CacheInit /\ DriverInit /\ ModelInit /\ ImageInit /\ VideoInit /\ InflateInit /\ RestIdle

NextInflate ==
  \/ \E l \in LoadIds : LoadModel(l)
  \/ \E l \in LoadIds : InflateEntities(l)
  \/ \E l \in LoadIds : InflateComponents(l)

SpecInflate == InitInflate /\ [][NextInflate]_vars

BaseInit ==
  CacheInit /\ DriverInit /\ ModelInit /\ ImageInit /\ VideoInit /\ InflateIdle

InitMigration == BaseInit /\ MigrationInit /\ PdfInit /\ GifIdle /\ VideoTextureIdle

NextMigration ==
  \/ LoadGLTF_runMigration
  \/ LoadGLTF_tagNodes
  \/ RunMigrationAgain

SpecMigration == InitMigration /\ [][NextMigration]_vars

InitMaterials ==
  /\ BaseInit /\ PdfInit /\ GifIdle /\ VideoTextureIdle
  /\ MaterialsInit
  /\ parserJson = [extension |-> [has |-> FALSE, version |-> NoVersion],
                   hasNodes |-> FALSE, nodes |-> <<>>]
  /\ originalJson = parserJson
  /\ migrations = 0
  /\ parserPc = "idle"

NextMaterials == LoadGLTF_swapMaterials

SpecMaterials == InitMaterials /\ [][NextMaterials]_vars

InitPdf == BaseInit /\ MigrationIdle /\ PdfInit /\ GifIdle /\ VideoTextureIdle

NextPdf ==
  \/ \E src \in SrcValues, index \in 0..MaxPdfIndex : PdfCreate(src, index)
  \/ \E src \in SrcValues, index \in 0..MaxPdfIndex, projection \in {"flat", "360-equirectangular"} :
       PdfSetData(src, index, projection)
  \/ PdfRemove
  \/ \E k \in 1..MaxPdfUpdates, ok \in BOOLEAN : PdfLoadSettles(k, ok)
  \/ \E t \in 1..MaxPdfUpdates, ok \in BOOLEAN : RenderSettles(t, ok)
  \/ PdfRunJob

SpecPdf == InitPdf /\ [][NextPdf]_vars

InitGif == BaseInit /\ MigrationIdle /\ PdfInit /\ GifInit /\ VideoTextureIdle

NextGif ==
  \/ GifUpdate
  \/ ClockAdvances

SpecGif == InitGif /\ [][NextGif]_vars

InitGifLoad == BaseInit /\ MigrationIdle /\ PdfInit /\ GifIdle /\ VideoTextureIdle

NextGifLoad ==
  \/ \E i \in GifCallIds : CreateGIFTexture(i)
  \/ \E i \in GifCallIds, ok \in BOOLEAN : GifFetchSettles(i, ok)
  \/ \E i \in GifCallIds, ok \in BOOLEAN : GifArrayBufferSettles(i, ok)
  \/ \E i \in GifCallIds, ok \in BOOLEAN, n \in 0..MaxFrames : ParseGIFSettles(i, ok, n)
  \/ \E i \in GifCallIds, f \in 1..MaxFrames : FrameImageLoads(i, f)
  \/ \E i \in GifCallIds, f \in 1..MaxFrames : FrameImageFails(i, f)

SpecGifLoad == InitGifLoad /\ [][NextGifLoad]_vars

InitVideoTexture == BaseInit /\ MigrationIdle /\ PdfInit /\ GifIdle /\ VideoTextureInit

NextVideoTexture ==
  \/ CreateVideoTexture
  \/ \E ok \in BOOLEAN : GetMediaStreamSettles(ok)
  \/ \E w \in 0..1, h \in 0..1 : VideoSizeKnown(w, h)
  \/ PollFires
  \/ \E fatal \in BOOLEAN, type \in HlsErrorTypes : HlsError(fatal, type)
  \/ VideoElError

SpecVideoTexture == InitVideoTexture /\ [][NextVideoTexture]_vars

\* ---------------------------------------------------------------- SpecCache
\* What a call leaves in lastCall / tally.
Called(kind, op, src, before, out) ==
  /\ UNCHANGED modelVars
  /\ UNCHANGED <<imageVars, videoVars, inflateVars, restVars>>
  /\ calls' = calls + 1
  /\ lastCall' = [kind |-> kind, op |-> op, src |-> src, before |-> before,
                  threw |-> out.threw, reported |-> out.reported,
                  disposed |-> out.disposed]
  /\ tally' = [tally EXCEPT ![kind][src] =
       IF op = "set" THEN [sets |-> 1, retains |-> 0, releases |-> 0]
       ELSE IF before = Undefined THEN @
       ELSE IF op = "retain" THEN [@ EXCEPT !.retains = @ + 1]
       ELSE [@ EXCEPT !.releases = @ + 1]]

\* textureCache.set(src, texture) with a freshly created texture.
CallTextureSet(src) ==
  /\ calls < MaxCalls /\ nextRes <= MaxRes
  /\ LET out == TextureCache_set(textureCache, src, nextRes) IN
       /\ textureCache' = out.cache
       /\ texDisposed' = Disposing(texDisposed, out.disposed)
       /\ Called("texture", "set", src, textureCache[src], out)
  /\ nextRes' = nextRes + 1
  /\ UNCHANGED gltfCache
  /\ UNCHANGED gltfDisposed

CallTextureRetain(src) ==
  /\ calls < MaxCalls
  /\ LET out == TextureCache_retain(textureCache, src) IN
       /\ textureCache' = out.cache
       /\ texDisposed' = Disposing(texDisposed, out.disposed)
       /\ Called("texture", "retain", src, textureCache[src], out)
  /\ UNCHANGED <<gltfCache, gltfDisposed, nextRes>>

CallTextureRelease(src) ==
  /\ calls < MaxCalls
  /\ LET out == TextureCache_release(textureCache, src) IN
       /\ textureCache' = out.cache
       /\ texDisposed' = Disposing(texDisposed, out.disposed)
       /\ Called("texture", "release", src, textureCache[src], out)
  /\ UNCHANGED <<gltfCache, gltfDisposed, nextRes>>

CallGltfSet(src) ==
  /\ calls < MaxCalls /\ nextRes <= MaxRes
  /\ LET out == GLTFCache_set(gltfCache, src, nextRes) IN
       /\ gltfCache' = out.cache
       /\ gltfDisposed' = Disposing(gltfDisposed, out.disposed)
       /\ Called("gltf", "set", src, gltfCache[src], out)
  /\ nextRes' = nextRes + 1
  /\ UNCHANGED <<textureCache, texDisposed>>

CallGltfRetain(src) ==
  /\ calls < MaxCalls
  /\ LET out == GLTFCache_retain(gltfCache, src) IN
       /\ gltfCache' = out.cache
       /\ gltfDisposed' = Disposing(gltfDisposed, out.disposed)
       /\ Called("gltf", "retain", src, gltfCache[src], out)
  /\ UNCHANGED <<textureCache, texDisposed, nextRes>>

CallGltfRelease(src) ==
  /\ calls < MaxCalls
  /\ LET out == GLTFCache_release(gltfCache, src) IN
       /\ gltfCache' = out.cache
       /\ gltfDisposed' = Disposing(gltfDisposed, out.disposed)
       /\ Called("gltf", "release", src, gltfCache[src], out)
  /\ UNCHANGED <<textureCache, texDisposed, nextRes>>

InitCache == CacheInit /\ DriverInit /\ ModelInit /\ ImageInit /\ VideoInit /\ InflateIdle /\ RestIdle

NextCache ==
  \E src \in Keys :
    \/ CallTextureSet(src)
    \/ CallTextureRetain(src)
    \/ CallTextureRelease(src)
    \/ CallGltfSet(src)
    \/ CallGltfRetain(src)
    \/ CallGltfRelease(src)

SpecCache == InitCache /\ [][NextCache]_vars

\* ------------------------------------------------- claims on the cache classes
CacheOf(kind) == IF kind = "texture" THEN textureCache ELSE gltfCache
DisposedOf(kind) == IF kind = "texture" THEN texDisposed ELSE gltfDisposed
CacheKinds == {"texture", "gltf"}

\* C6: every entry present in the texture cache and in the glTF cache has
\* reference count >= 1 in every reachable state; an entry whose count reaches
\* 0 is deleted in the same synchronous step.
C6_CountAtLeastOne ==
  \A kind \in CacheKinds : \A k \in Keys :
    CacheOf(kind)[k] # Undefined => CacheOf(kind)[k].count >= 1

\* C6 witness: a release has just taken an entry from count 1 to deletion
\* while another entry of the same table is still held.
C6_Witness ==
  /\ lastCall.op = "release"
  /\ lastCall.before # Undefined
  /\ lastCall.before.count = 1
  /\ CacheOf(lastCall.kind)[lastCall.src] = Undefined
  /\ \E k \in Keys : CacheOf(lastCall.kind)[k] # Undefined

\* C7: the release(k) that brings the count to 0 invokes the disposal routine
\* exactly once for that entry and has(k) is false afterwards; disposal is
\* never invoked while the count is still positive and never twice for the
\* same entry.
C7_DisposedExactlyOnceAtZero ==
  /\ \A kind \in CacheKinds : \A r \in Res : DisposedOf(kind)[r] <= 1
  /\ \A kind \in CacheKinds : \A k \in Keys :
       CacheOf(kind)[k] # Undefined => DisposedOf(kind)[CacheOf(kind)[k].res] = 0
  /\ (lastCall.op = "release" /\ lastCall.before # Undefined) =>
       IF lastCall.before.count = 1
         THEN /\ CacheOf(lastCall.kind)[lastCall.src] = Undefined
              /\ lastCall.disposed = {lastCall.before.res}
              /\ DisposedOf(lastCall.kind)[lastCall.before.res] = 1
         ELSE /\ lastCall.disposed = {}
              /\ DisposedOf(lastCall.kind)[lastCall.before.res] = 0

\* C7 witness: an entry that had been retained to count 2 was released twice;
\* the second release found count 1.
C7_Witness ==
  /\ lastCall.op = "release"
  /\ lastCall.before # Undefined
  /\ lastCall.before.count = 1
  /\ tally[lastCall.kind][lastCall.src].retains >= 1
  /\ tally[lastCall.kind][lastCall.src].releases >= 2

\* C8: starting from one set(k), which creates the entry with count exactly 1,
\* the count of the entry equals #sets + #retains - #releases while the entry
\* exists, and it is never negative.
C8_CountIsTally ==
  \A kind \in CacheKinds : \A k \in Keys :
    LET e == CacheOf(kind)[k]
        t == tally[kind][k]
    IN  /\ (e # Undefined /\ t.sets = 1) =>
             /\ e.count = t.sets + t.retains - t.releases
             /\ e.count >= 0
        /\ (lastCall.op = "set" /\ lastCall.kind = kind /\ lastCall.src = k) =>
             (e # Undefined /\ e.count = 1)

\* C8 witness: an entry that has seen retains and a release and still exists.
C8_Witness ==
  \E kind \in CacheKinds : \E k \in Keys :
    /\ CacheOf(kind)[k] # Undefined
    /\ tally[kind][k].retains >= 2
    /\ tally[kind][k].releases >= 1

\* C9: release(k) on a key that is not in the cache is a reported, non-fatal
\* error: it does not throw, disposes nothing and leaves every entry of the
\* table unchanged.
C9_ReleaseAbsentIsNoOp ==
  [][(calls' # calls /\ lastCall'.op = "release" /\ lastCall'.before = Undefined) =>
       /\ ~lastCall'.threw
       /\ lastCall'.reported
       /\ lastCall'.disposed = {}
       /\ textureCache' = textureCache
       /\ gltfCache' = gltfCache
       /\ texDisposed' = texDisposed
       /\ gltfDisposed' = gltfDisposed]_vars

\* C9 witness: a release of a key that had been set and already released to
\* zero, with another entry present in the same table.
C9_Witness ==
  /\ lastCall.op = "release"
  /\ lastCall.before = Undefined
  /\ tally[lastCall.kind][lastCall.src].sets = 1
  /\ \E k \in Keys : CacheOf(lastCall.kind)[k] # Undefined

\* C10: retain(k) on a key absent from the cache raises an error to the
\* caller and neither creates an entry for k nor changes any other entry.
C10_RetainAbsentThrows ==
  [][(calls' # calls /\ lastCall'.op = "retain" /\ lastCall'.before = Undefined) =>
       /\ lastCall'.threw
       /\ textureCache' = textureCache
       /\ gltfCache' = gltfCache
       /\ texDisposed' = texDisposed
       /\ gltfDisposed' = gltfDisposed]_vars

\* C10 witness: a retain of an absent key while another key of the same table
\* is cached.
C10_Witness ==
  /\ lastCall.op = "retain"
  /\ lastCall.before = Undefined
  /\ lastCall.threw
  /\ \E k \in Keys : CacheOf(lastCall.kind)[k] # Undefined

\* ------------------------------------------- claims on the model consumers
\* Nothing is suspended: every load has settled and every continuation has run.
ModelQuiescent ==
  /\ jobs = <<>>
  /\ macroWaiting = <<>>
  /\ \A k \in Keys : gltfWaiting[k] = <<>>

\* C1: no cached resource is disposed while a live consumer still displays
\* it: a component that has not been removed and whose current src is the one
\* applied to its mesh never shows a glTF on which the disposal routine ran.
C1_NoDisposalWhileDisplayed ==
  \A c \in ModelIds :
    (/\ mdl[c].state = "live"
     /\ mdl[c].mesh # NoObject
     /\ mdl[c].mesh.src = mdl[c].src) => gltfDisposed[mdl[c].mesh.res] = 0

\* C3: the in-flight entry of a key is removed as soon as its load settles,
\* on success and on failure alike: once the continuation of the call that
\* started the load has run, the key has no in-flight entry, and it has a
\* cache entry exactly if the load succeeded.
C3_InflightClearedOnSettle ==
  lastRun.stage = "loader" =>
    /\ inflightGltfs[lastRun.src] = Undefined
    /\ lastRun.ok <=> GLTFCache_has(gltfCache, lastRun.src)

\* C4: a superseded model load leaves zero net cache retains for the stale key
\* and no inflated entity of the stale key: once everything has settled and
\* the component shows its current src, it holds nothing on a key it left
\* while that key was loading.
C4_SupersededLoadHoldsNothing ==
  \A c \in ModelIds : \A k \in superseded[c] :
    (/\ ModelQuiescent
     /\ mdl[c].lastSrc \in Keys \ {k}
     /\ mdl[c].mesh.src = mdl[c].lastSrc) =>
       /\ held[c][k] = 0
       /\ mdl[c].inflatedEl.src # k

\* C5: once every consumer has been removed and every pending load has
\* settled, the cache is empty.
C5_EmptyAtQuiescence ==
  (/\ ModelQuiescent
   /\ \E c \in ModelIds : mdl[c].state = "removed"
   /\ \A c \in ModelIds : mdl[c].state # "live") => gltfCache = EmptyCache

\* ------------------------------------------- claims on the image consumers
\* C2: two simultaneous requests for the same uncached key start exactly one
\* load computation and both requesters observe the same resulting resource:
\* the requests waiting on a key are one that started the load followed by
\* requests that only await it, and a requester that awaited a load that
\* succeeded, and is still current, shows the texture that load produced.
C2_OneLoadSameResource ==
  /\ \A k \in Keys : \A i \in 1..Len(texWaiting[k]) :
       texWaiting[k][i].stage = IF i = 1 THEN "imageLoader" ELSE "imageWaiter"
  /\ (/\ lastRun.stage = "imageWaiter"
      /\ lastRun.ok
      /\ img[lastRun.c].state = "live"
      /\ img[lastRun.c].src = lastRun.src) => img[lastRun.c].map = lastRun.res

\* The continuation at the head of the queue resumes a media-image update()
\* whose load succeeded, for a component whose src has changed since or whose
\* element was removed.
StaleImageJobReady ==
  /\ jobs # <<>>
  /\ Head(jobs).stage \in {"imageLoader", "imageWaiter"}
  /\ Head(jobs).ok
  /\ \/ img[Head(jobs).c].src # Head(jobs).src
     \/ img[Head(jobs).c].state = "removed"

\* C11: when a media-image load completes after the consumer's src changed or
\* its element was removed, the continuation discards the result: the
\* consumer's displayed texture and currentSrcIsRetained flag are unchanged,
\* its net retains are unchanged (the one retain taken for the stale key is
\* released), no other key's entry is touched and no image-loaded is emitted.
C11_StaleResultDiscarded ==
  [][StaleImageJobReady =>
       /\ img' = img
       /\ imgHeld' = imgHeld
       /\ lastRun'.outcome = "discarded"
       /\ \A k \in Keys \ {Head(jobs).src} : textureCache'[k] = textureCache[k]]_vars

\* No media-image update() is suspended: every load has settled and every
\* continuation has run.
ImageQuiescent ==
  /\ jobs = <<>>
  /\ \A k \in Keys : texWaiting[k] = <<>>

\* The only update() calls so far are the creations of components a and b,
\* both with src k.
OnlyTwoRequests(a, b, k) ==
  /\ a # b
  /\ updates = 2
  /\ img[a].state # "none" /\ img[a].src = k
  /\ img[b].state # "none" /\ img[b].src = k

LiveOf(a, b) == Cardinality({c \in {a, b} : img[c].state = "live"})

\* C12: two media-image consumers loading the same key concurrently cause one
\* decode and a cache count of 2 once both have completed, and removing both
\* afterwards drops the count to 0 and disposes the texture exactly once.
\* First conjunct: when the second requester, which awaited the first one's
\* load, resumes with both still in the scene, it shows the texture of the
\* only decode and the count is 2. Second conjunct: once both show that
\* texture, the count is the number of them still in the scene, the entry is
\* gone when none is, and the texture is disposed once then and not before.
C12_OneDecodeCountTwoThenDisposed ==
  \A a, b \in ImageIds : \A k \in Keys :
    /\ (/\ OnlyTwoRequests(a, b, k)
        /\ lastRun.stage = "imageWaiter" /\ lastRun.ok /\ lastRun.c = b
        /\ LiveOf(a, b) = 2) =>
          /\ nextRes = 2
          /\ img[a].map = lastRun.res /\ img[b].map = lastRun.res
          /\ TextureCache_has(textureCache, k) /\ textureCache[k].count = 2
          /\ inflightTextures[k] = Undefined
    /\ (/\ OnlyTwoRequests(a, b, k)
        /\ ImageQuiescent
        /\ img[a].map \in Res /\ img[b].map = img[a].map) =>
          /\ nextRes = 2
          /\ IF LiveOf(a, b) = 0
               THEN ~TextureCache_has(textureCache, k) /\ texDisposed[img[a].map] = 1
               ELSE /\ TextureCache_has(textureCache, k)
                    /\ textureCache[k].count = LiveOf(a, b)
                    /\ texDisposed[img[a].map] = 0

\* Both consumers loaded k concurrently (the second awaited the first one's
\* load) and the waiter has just shown the texture with the count at 2.
C12_Witness ==
  \E a, b \in ImageIds : \E k \in Keys :
    /\ OnlyTwoRequests(a, b, k)
    /\ lastRun.stage = "imageWaiter" /\ lastRun.c = b
    /\ lastRun.outcome = "image-loaded"
    /\ textureCache[k].count = 2

\* Both consumers were removed after showing the same texture.
C12_BothRemoved ==
  \E a, b \in ImageIds : \E k \in Keys :
    /\ OnlyTwoRequests(a, b, k)
    /\ img[a].map \in Res /\ img[b].map = img[a].map
    /\ LiveOf(a, b) = 0
    /\ texDisposed[img[a].map] = 1

\* C13: for a single consumer only the continuation of the latest request
\* applies its result: when the consumer requested key k again while an
\* earlier request of its own for k was still loading, then once everything has
\* settled and the consumer shows k it holds exactly one retain on k.
C13_OnlyLatestRequestApplies ==
  \A c \in ModelIds : \A k \in reissued[c] :
    (/\ ModelQuiescent
     /\ mdl[c].state = "live" /\ mdl[c].useCache
     /\ mdl[c].lastSrc = k
     /\ mdl[c].mesh.src = k) => held[c][k] = 1

\* The continuation at the head of the queue resumes a media-image update()
\* whose awaited load was rejected; the component holds no retain left over
\* from a src it showed earlier.
FailedImageJobReady ==
  /\ jobs # <<>>
  /\ Head(jobs).stage \in {"imageLoader", "imageWaiter"}
  /\ ~Head(jobs).ok
  /\ \A k \in Keys \ {img[Head(jobs).c].src} : imgHeld[Head(jobs).c][k] = 0

\* C14: when a media-image load fails the failure stays inside update(): the
\* consumer ends displaying the error placeholder, its currentSrcIsRetained
\* flag is false, it holds no cache retain, and the count of every key is
\* what it was before.
C14_FailureShowsPlaceholderHoldsNothing ==
  [][FailedImageJobReady =>
       /\ img'[Head(jobs).c].map = ErrorTexture
       /\ ~img'[Head(jobs).c].currentSrcIsRetained
       /\ \A k \in Keys : imgHeld'[Head(jobs).c][k] = 0
       /\ textureCache' = textureCache]_vars

\* ------------------------------------------- claims on the video consumer
\* C15: for a media-video consumer, after any sequence of src changes, once
\* every pending load has settled the mesh displays the texture of the current
\* src or the error placeholder, and no updateSrc() call has ended in an error
\* raised outside its error handler.
C15_VideoShowsCurrentOrPlaceholder ==
  (/\ vid.state = "live"
   /\ vid.src \in Keys
   /\ vidPending = <<>>) =>
     /\ vidEscaped = 0
     /\ vid.mesh
     /\ \/ vid.map = ErrorTexture
        \/ /\ vid.map \in DOMAIN vidTextures
           /\ vidTextures[vid.map].src = vid.src

\* ------------------------------------------------- claims on inflation
\* The loads whose entity tree has been built.
Inflated == {l \in LoadIds : loads[l].pc \in {"inflated", "model-loaded", "model-error"}}

RECURSIVE Ancestors(_, _)
Ancestors(scene, n) ==
  IF scene.parent[n] = 0 THEN {}
  ELSE {scene.parent[n]} \cup Ancestors(scene, scene.parent[n])

\* C17: the inflated entity tree is isomorphic to the pruned node tree: every
\* ancestor of a node that got an entity got one too, the entity is a child
\* of the entity of the node's direct parent and of no other, and sibling
\* entities keep the order of their nodes.
C17_EntityTreeIsPrunedNodeTree ==
  \A l \in Inflated :
    LET sc == loads[l].scene
        Kids(p) == {loads[l].childEntities[p][i] : i \in DOMAIN loads[l].childEntities[p]}
    IN
    /\ \A n \in NodesOf(sc) : loads[l].el[n] /\ n # 1 =>
         /\ \A a \in Ancestors(sc, n) : loads[l].el[a]
         /\ \A p \in NodesOf(sc) : n \in Kids(p) <=> p = sc.parent[n]
    /\ \A p \in NodesOf(sc) :
         /\ Kids(p) # {} => loads[l].el[p]
         /\ \A i, j \in DOMAIN loads[l].childEntities[p] :
              i < j => loads[l].childEntities[p][i] < loads[l].childEntities[p][j]
         /\ Kids(p) = {k \in NodesOf(sc) : sc.parent[k] = p /\ loads[l].el[k]}

\* A chain root - child - grandchild in which only the grandchild has
\* behaviour was inflated: all three got entities, nested the same way.
C17_Witness ==
  \E l \in Inflated :
    LET sc == loads[l].scene IN
    /\ sc.parent = <<0, 1, 2>>
    /\ ~getHubsComponents(sc, 2).has /\ sc.name[2] \notin templates
    /\ getHubsComponents(sc, 3).has
    /\ loads[l].childEntities = <<<<2>>, <<3>>, <<>>>>

\* C18: a component key for which no inflator was registered is fatal for the
\* load: when a node that got an entity carries such a key, the load ends in
\* model-error, not in model-loaded.
C18_UnregisteredKeyIsFatal ==
  \A l \in LoadIds :
    (/\ loads[l].pc \in {"model-loaded", "model-error"}
     /\ \E n \in NodesOf(loads[l].scene) :
          /\ loads[l].el[n]
          /\ getHubsComponents(loads[l].scene, n).keys \ RegisteredKeys # {})
      => loads[l].pc = "model-error"

\* C19: when a step of inflation fails, no partial entity tree is left
\* attached: after the load has ended in model-error the host element has no
\* inflated entity child from it.
C19_FailedInflationLeavesNothingAttached ==
  \A l \in LoadIds : loads[l].pc = "model-error" => ~loads[l].attached

\* The object identities of a scene's nodes.
ObjectsOf(scene) == {scene.ids[i] : i \in DOMAIN scene.ids}

C21_MigrationGatedByVersion ==
  (migrations = 1 /\ parserPc \in {"migrated", "rejected"}) =>
    LET ext == originalJson.extension
        old == {i \in 1..Len(originalJson.nodes) : isOldHeightfieldNode(originalJson.nodes[i])}
    IN /\ (ext.has /\ ext.version >= 2) =>
            (parserPc = "migrated" /\ parserJson = originalJson)
       /\ ((~ext.has \/ ext.version < 2) /\ old # {}) =>
            /\ parserPc = "migrated"
            /\ parserJson # originalJson
            /\ \E i \in old :
                 /\ \A j \in old : i <= j
                 /\ "heightfield" \notin componentsOf(parserJson.nodes[i]).keys

\* An unstamped document with a dual-tagged node has been fixed up.
C21_Witness ==
  /\ migrations = 1 /\ parserPc = "migrated"
  /\ ~originalJson.extension.has
  /\ \E i \in 1..Len(originalJson.nodes) : isOldHeightfieldNode(originalJson.nodes[i])
  /\ parserJson # originalJson

\* C22: applying the migration step to a document that has already been
\* migrated is a no-op: runMigration(v, runMigration(v, json)) is the same
\* document as runMigration(v, json).
C22_MigrationIdempotent ==
  (migrations = 1 /\ parserPc = "migrated") =>
    runMigration(versionOf(parserJson), parserJson).json = parserJson

\* C23: after runMigration on a document whose version is below 2, no node
\* carries both heightfield and nav-mesh in its hubs components, and apart
\* from the deleted heightfield keys every node is as it was.
C23_NoDualTaggedNodeLeft ==
  (migrations = 1 /\ parserPc = "migrated" /\ versionOf(originalJson) < 2) =>
    /\ \A i \in 1..Len(parserJson.nodes) : ~isOldHeightfieldNode(parserJson.nodes[i])
    /\ Len(parserJson.nodes) = Len(originalJson.nodes)
    /\ \A i \in 1..Len(parserJson.nodes) :
         LET before == originalJson.nodes[i]
             after == parserJson.nodes[i]
         IN /\ after.MOZ_hubs_components.has = before.MOZ_hubs_components.has
            /\ after.HUBS_components.has = before.HUBS_components.has
            /\ after.MOZ_hubs_components.keys \ {"heightfield"}
                 = before.MOZ_hubs_components.keys \ {"heightfield"}
            /\ after.HUBS_components.keys \ {"heightfield"}
                 = before.HUBS_components.keys \ {"heightfield"}
            /\ ~isOldHeightfieldNode(before) => after = before

\* C24: within one model load the entity tree is built and attached before
\* the component inflators run, and a load that was left behind while it
\* waited at nextTick() (this.lastSrc was changed in the meantime) runs
\* neither the inflators nor the template attachment: its continuation
\* returns at the staleness check, or finds no inflated tree to work on.
C24_LeftLoadRunsNoInflation ==
  [][(RunJob /\ Head(jobs).stage = "nextTick") =>
       /\ Head(jobs).left =>
            (lastRun'.outcome = "stale" \/ mdl[Head(jobs).c].inflatedEl = NoObject)
       /\ lastRun'.outcome = "model-loaded" => mdl[Head(jobs).c].inflatedEl # NoObject]_vars

\* ------------------------------------------------------------------ SpecPdf
\* C25: page renders onto the component's canvas are serialized: whatever
\* the sequence of updates, at most one render task is in flight.
C25_OneRenderInFlight ==
  Cardinality({t \in 1..Len(renderTasks) : renderTasks[t] = "pending"}) <= 1

\* ------------------------------------------------------------------ SpecGif
\* C26: GIFTexture.update() moves to the next frame, modulo the number of
\* frames, and sets frameStartTime to the current time exactly when more
\* time than the current frame's delay has passed since frameStartTime;
\* otherwise it changes nothing.  The frame index stays in 0 .. frames - 1.
C26_FrameAdvancesAfterDelay ==
  /\ [](gif.frame \in 0..(gif.frames - 1))
  /\ [][GifUpdate =>
          IF now - gif.frameStartTime > gif.delays[gif.frame + 1]
            THEN /\ gif'.frame = (gif.frame + 1) % gif.frames
                 /\ gif'.frameStartTime = now
                 /\ gif'.frames = gif.frames /\ gif'.delays = gif.delays
                 /\ gif'.disposals = gif.disposals
            ELSE gif' = gif]_vars

\* The last frame of a GIF with several frames has been left for frame 0.
C26_Witness ==
  /\ gif.frames > 1 /\ gif.frame = 0
  /\ gif.frameStartTime > 0
  /\ gif.frameStartTime = now

\* --------------------------------------------------------- SpecVideoTexture
\* C27: createVideoTexture resolves only when the video has a nonzero width
\* and a nonzero height; a poll that finds a dimension still zero sets the
\* timer again and leaves the promise as it is.
C27_ResolvesWithBothDimensions ==
  /\ [](vtex.promise = "resolved" => (vtex.resolvedWidth # 0 /\ vtex.resolvedHeight # 0))
  /\ [][(PollFires /\ (vtex.videoWidth = 0 \/ vtex.videoHeight = 0)) =>
          (vtex'.timer /\ vtex'.promise = vtex.promise)]_vars
  /\ [][vtex'.promise # vtex.promise /\ vtex'.promise = "resolved" =>
          (vtex.videoWidth # 0 /\ vtex.videoHeight # 0)]_vars

\* The promise resolved at a later poll, after an earlier one found nothing.
C27_Witness ==
  /\ vtex.promise = "resolved" /\ vtex.polls > 1
  /\ vtex.resolvedWidth # 0 /\ vtex.resolvedHeight # 0

\* C28: with hls.js, a fatal network error calls startLoad() and a fatal
\* media error calls recoverMediaError(), neither failing the load; any other
\* fatal error rejects the load; a non-fatal error does none of these.
C28_HlsErrorHandling ==
  [][\A fatal \in BOOLEAN, type \in HlsErrorTypes :
       HlsError(fatal, type) =>
         LET same(f) == vtex'[f] = vtex[f] IN
         IF ~fatal THEN same("promise") /\ same("startLoads") /\ same("recoveries")
         ELSE IF type = "networkError"
           THEN same("promise") /\ vtex'.startLoads = vtex.startLoads + 1 /\ same("recoveries")
         ELSE IF type = "mediaError"
           THEN same("promise") /\ vtex'.recoveries = vtex.recoveries + 1 /\ same("startLoads")
         ELSE /\ vtex.promise = "pending" => vtex'.promise = "rejected"
              /\ same("startLoads") /\ same("recoveries")]_vars

\* A pending load has survived a fatal error by restarting or recovering.
C28_Witness ==
  /\ vtex.kind = "hls" /\ vtex.promise = "pending"
  /\ vtex.startLoads + vtex.recoveries > 0

\* ------------------------------------------------------- SpecInflate, again
\* C29: inflation changes nothing of the asset's nodes except for transform
\* baking.  A node that got an entity has given its transform to the entity
\* and has the identity transform; every node has the name, the uuid and
\* the parent it had in the scene that loadModel returned; a pruned node is
\* exactly as it was.
C29_InflationOnlyBakesTransforms ==
  \A l \in Inflated :
    LET before == cloneGltf(cachedGltf, loads[l].scene.ids[1] - 1)
        after == loads[l].scene
    IN \A n \in NodesOf(after) :
         /\ loads[l].el[n] =>
              /\ loads[l].elTransform[n] = before.transform[n]
              /\ after.transform[n] = Identity
         /\ ~loads[l].el[n] => after.transform[n] = before.transform[n]
         /\ after.name[n] = before.name[n]
         /\ after.uuid[n] = before.uuid[n]
         /\ after.parent[n] = before.parent[n] /\ after.holder[n] = before.holder[n]
         /\ after.comps[n] = before.comps[n]

C31_SrcChangeMovesTheRetain ==
  [][\A c \in ImageIds :
       LET A == img[c].src
           B == img'[c].src
       IN (/\ img[c].state = "live" /\ img'[c].state = "live"
           /\ A \in Keys /\ B \in Keys /\ A # B
           /\ img[c].currentSrcIsRetained /\ imgHeld[c][A] = 1)
            => /\ imgHeld'[c][A] = 0
               /\ ImageCacheHas(textureCache, B) => imgHeld'[c][B] = 1]_vars

\* C32: a requester that waited on an in-flight load finds the key in the
\* cache when it resumes after a successful load, so its retain(src) never
\* targets an absent key.
C32_WaiterFindsKeyCached ==
  (jobs # <<>> /\ Head(jobs).ok) =>
     /\ Head(jobs).stage = "imageWaiter" => TextureCache_has(textureCache, Head(jobs).src)
     /\ Head(jobs).stage = "waiter" => GLTFCache_has(gltfCache, Head(jobs).src)

\* C33: no key is at once in the in-flight registry and in the cache of the
\* same resource category, and the continuation that calls cache.set(k, ...)
\* finds k absent from the cache.
C33_InflightAndCacheDisjoint ==
  /\ \A k \in Keys :
       /\ ~(inflightTextures[k] # Undefined /\ TextureCache_has(textureCache, k))
       /\ ~(inflightGltfs[k] # Undefined /\ GLTFCache_has(gltfCache, k))
  /\ (jobs # <<>> /\ Head(jobs).ok) =>
       /\ Head(jobs).stage = "imageLoader" => ~TextureCache_has(textureCache, Head(jobs).src)
       /\ Head(jobs).stage = "loader" => ~GLTFCache_has(gltfCache, Head(jobs).src)

\* A load has just been stored and shown while another key is still in flight.
C33_Witness ==
  /\ lastRun.stage = "imageLoader" /\ lastRun.outcome = "image-loaded"
  /\ TextureCache_has(textureCache, lastRun.src)
  /\ inflightTextures[lastRun.src] = Undefined
  /\ \E k \in Keys : inflightTextures[k] # Undefined /\ inflightTextures[k].state = "pending"

\* C34: the shared error placeholder texture is never an entry of the texture
\* cache and is never passed to disposeTexture, whatever loads fail and
\* whatever src changes and removals follow.
C34_PlaceholderNeverCachedOrDisposed ==
  /\ errDisposed = 0
  /\ \A k \in Keys :
       TextureCache_has(textureCache, k) => TextureCache_get(textureCache, k).res # ErrorTexture

\* C35: no step taken by or for a gltf-model-plus consumer configured with
\* useCache = false (its creation, a src change, its removal, a continuation
\* of its applySrc) changes the glTF cache.
C35_UncachedConsumerLeavesCacheAlone ==
  [][\A c \in ModelIds :
       (/\ mdl'[c].state # "none"
        /\ ~mdl'[c].useCache
        /\ \/ mdl'[c] # mdl[c]
           \/ lastRun'.stage # "none" /\ lastRun'.c = c)
         => gltfCache' = gltfCache]_vars

\* C36: createGIFTexture settles for every decode result: once the decoder
\* has answered and no frame image is still loading, the promise is resolved
\* or rejected; it is resolved at most once and only when every frame image
\* has loaded.
C36_GifLoadSettles ==
  \A i \in GifCallIds :
    /\ gifLoads[i].resolves <= 1
    /\ gifLoads[i].promise = "resolved" =>
         \A f \in 1..gifLoads[i].frames : gifLoads[i].images[f] = "loaded"
    /\ (/\ gifLoads[i].pc = "images"
        /\ \A f \in 1..gifLoads[i].frames : gifLoads[i].images[f] # "loading")
         => gifLoads[i].promise # "pending"

\* C37: after the substitution pass every position whose original material
\* lists an alternate j for the preferred technique holds the original material
\* at index j, and every other position holds its original material.
C37_EachMaterialSwappedForItsAlternate ==
  materialPass.pc = "swapped" =>
    \A i \in 1..Len(materialPass.original) :
      LET j == materialPass.original[i].alts[materialPass.preferredTechnique] IN
      materialPass.materials[i] =
        IF j # NoAlt THEN materialPass.original[j + 1] ELSE materialPass.original[i]

\* C38: when update() leaves a frame whose disposal mode is 2 (restore to
\* background), the rectangle it clears covers the whole canvas, its width
\* by its height, whatever the canvas size.
C38_ClearsTheWholeCanvas ==
  [][(/\ GifUpdate
      /\ now - gif.frameStartTime > gif.delays[gif.frame + 1]
      /\ gif.disposals[gif.frame + 1] = 2)
       => /\ canvas'.clearRect.w >= canvas.width
          /\ canvas'.clearRect.h >= canvas.height]_vars

====
